---------------------------- MODULE Spec2Model ----------------------------
(***************************************************************************)
(* A model of the AI e-mail assistant backend: the tone catalog and tone   *)
(* normalisation (services/tone_adapter.py, config.py), e-mail generation  *)
(* with its primary/secondary backends (services/generator.py), the        *)
(* /generate route (routes/email.py) and resume matching                   *)
(* (services/resume_matcher.py).                                           *)
(*                                                                         *)
(* Python strings that the code inspects character by character (tones)    *)
(* are sequences of character codes, so that strip, capitalize, lower and  *)
(* the substring test are computed as Python computes them.                *)
(***************************************************************************)
EXTENDS Integers, Sequences, FiniteSets, TLC

VARIABLES
    pc,                      \* position inside the current generate_email call
    call,                    \* arguments of the current call and who made it
    prompt,                  \* greeting and closing lines of the GPT prompt
    gpt_calls,               \* openai.ChatCompletion.create invocations of this call
    hf_calls,                \* hf_generator invocations of this call
    gpt_status,              \* how the primary path of this call has gone
    hf_status,               \* how the secondary path of this call has gone
    content,                 \* the content string of this call
    result,                  \* the dictionary returned by generate_email
    outcome,                 \* "none", "returned" or "raised"
    email_generation_count,  \* utils.metrics.email_generation_count
    n_calls,                 \* calls made by the callers so far
    db,                      \* the email_records table
    raw_tone,                \* normalize_tone: its argument
    normalized,              \* normalize_tone: its result
    tone_pc,                 \* normalize_tone: "input" before, "done" after
    tone_text,               \* analyze_tone: its argument
    detected,                \* analyze_tone: its result
    analyze_pc,              \* analyze_tone: "input" before, "done" after
    catalog,                 \* the tone catalogs of the process (module globals)
    tone_call,               \* the last call of a tone_adapter helper
    ner,                     \* the phrases the loaded spaCy model tags as skills
    hash_seed,               \* the string hash seed of the process
    resume_text,             \* compute_match_score: its first argument
    job_description,         \* compute_match_score: its second argument
    match_pc,                \* compute_match_score: "input" before, "done" after
    match_result,            \* compute_match_score: its result, or that it raised
    missing,                 \* get_missing_requirements: its result
    match_again,             \* compute_match_score: the result of a second call
    job_requirements,        \* analyze_requirements: its result
    extracted,               \* extract_skills: its result
    app,                     \* the current generate_application_email call
    send,                    \* the current EmailSender.send_email call
    EMAIL_SEND_ATTEMPTS,     \* services.sender.EMAIL_SEND_ATTEMPTS, by status
    reply                    \* the answer of the history route being served

gen_vars == <<pc, call, prompt, gpt_calls, hf_calls, gpt_status, hf_status,
              content, result, outcome, email_generation_count, n_calls, db>>

tone_vars == <<raw_tone, normalized, tone_pc, tone_text, detected,
               analyze_pc, catalog, tone_call>>

match_vars == <<ner, hash_seed, resume_text, job_description, match_pc,
                match_result, missing, match_again, job_requirements,
                extracted>>

service_vars == <<send, EMAIL_SEND_ATTEMPTS, reply>>

vars == <<gen_vars, tone_vars, match_vars, app, service_vars>>

-----------------------------------------------------------------------------
(* Bounds of the model.                                                    *)

\* generate_email calls in one behaviour
MaxCalls == 2

\* pieces a raw tone input is put together from
MaxPieces == 3

\* sentences of a job description
MaxJobSentences == 2

\* Calls in a behaviour of the application pipeline and the route.
MaxAppCalls == 1

-----------------------------------------------------------------------------
(* Strings.                                                                *)

Formal     == <<70,111,114,109,97,108>>                \* "Formal"
Friendly   == <<70,114,105,101,110,100,108,121>>       \* "Friendly"
Persuasive == <<80,101,114,115,117,97,115,105,118,101>>  \* "Persuasive"
Apologetic == <<65,112,111,108,111,103,101,116,105,99>>  \* "Apologetic"
Assertive  == <<65,115,115,101,114,116,105,118,101>>   \* "Assertive"

\* config.TONE_OPTIONS, in list order
TONE_OPTIONS == <<Formal, Friendly, Persuasive, Apologetic, Assertive>>

\* the keys of the dictionary TONE_DESCRIPTIONS
TONE_DESCRIPTIONS == {Formal, Friendly, Persuasive, Apologetic, Assertive}

\* the dictionary TONE_EXAMPLES: the greeting and the closing of each tone
TONE_EXAMPLES ==
    (Formal :>
        [greeting |-> <<68,101,97,114,32,91,78,97,109,101,93,44>>,  \* "Dear [Name],"
         closing |->
            <<66,101,115,116,32,114,101,103,97,114,100,115,44>>])  \* "Best regards,"
    @@
    (Friendly :>
        [greeting |-> <<72,105,32,91,78,97,109,101,93,44>>,  \* "Hi [Name],"
         closing |->
            <<84,104,97,110,107,115,32,97,110,100,32,98,101,115,116,32,119,105,115,104,101,115,44>>])  \* "Thanks and best wishes,"
    @@
    (Persuasive :>
        [greeting |-> <<68,101,97,114,32,91,78,97,109,101,93,44>>,  \* "Dear [Name],"
         closing |->
            <<76,111,111,107,105,110,103,32,102,111,114,119,97,114,100,32,116,111,32,121,111,117,114,32,112,111,115,105,116,105,118,101,32,114,101,115,112,111,110,115,101,44>>])  \* "Looking forward to your positive response,"
    @@
    (Apologetic :>
        [greeting |-> <<68,101,97,114,32,91,78,97,109,101,93,44>>,  \* "Dear [Name],"
         closing |->
            <<83,105,110,99,101,114,101,108,121,32,97,112,111,108,111,103,105,122,105,110,103,44>>])  \* "Sincerely apologizing,"
    @@
    (Assertive :>
        [greeting |-> <<68,101,97,114,32,91,78,97,109,101,93,44>>,  \* "Dear [Name],"
         closing |->
            <<66,101,115,116,32,114,101,103,97,114,100,115,44>>])  \* "Best regards,"

\* config.HF_MODEL (its default)
HF_MODEL == "microsoft/phi-2"

\* A tone argument that is not a str (JSON null, a number): Python's None.
NoneTone == <<-1>>

IsStr(t) == \A i \in 1..Len(t) : t[i] >= 0

Casual        == <<67,97,115,117,97,108>>              \* "Casual"
LowerFriendly == <<102,114,105,101,110,100,108,121>>   \* "friendly"

\* The tone arguments the callers of the model pass.
ToneArgs == {Formal, Friendly, Casual, LowerFriendly, NoneTone}

Users == {1, 2}

-----------------------------------------------------------------------------
(* services/tone_adapter.py: normalize_tone                                *)

\* str.lower and str.upper on one character (ASCII)
LowerChar(c) == IF c \in 65..90 THEN c + 32 ELSE c

UpperChar(c) == IF c \in 97..122 THEN c - 32 ELSE c

\* the characters str.strip removes (ASCII whitespace)
IsSpace(c) == c \in {9, 10, 11, 12, 13, 28, 29, 30, 31, 32}

\* str.lower
Lower(s) == [i \in 1..Len(s) |-> LowerChar(s[i])]

\* str.capitalize: the first character upper-cased, the others lower-cased
Capitalize(s) ==
    [i \in 1..Len(s) |-> IF i = 1 THEN UpperChar(s[i]) ELSE LowerChar(s[i])]

\* str.strip
Strip(s) ==
    LET kept == {i \in 1..Len(s) : ~IsSpace(s[i])}
    IN  IF kept = {} THEN <<>>
        ELSE LET first == CHOOSE i \in kept : \A j \in kept : i <= j
                 last  == CHOOSE i \in kept : \A j \in kept : j <= i
             IN  SubSeq(s, first, last)

\* Python's  sub in s  on strings
Contains(sub, s) ==
    \E i \in 0..(Len(s) - Len(sub)) : SubSeq(s, i + 1, i + Len(sub)) = sub

\* A variant of tone_matches that compares without lower-casing the name.
tone_matches_case_sensitive(valid_tone, tone_lower) ==
    Contains(valid_tone, tone_lower)

\* Line 92: valid_tone.lower() in tone_lower
tone_matches(valid_tone, tone_lower) ==
    Contains(Lower(valid_tone), tone_lower)

\* A variant of no_match that hands back the cleaned input.
no_match_returns_input(tone_clean) == tone_clean

\* Line 95: the default when no tone matches
no_match(tone_clean) == Formal

\* Lines 91-95: the loop over config.TONE_OPTIONS from entry i on, then the
\* default.
RECURSIVE closest_tone(_, _, _)
closest_tone(tone_clean, tone_lower, i) ==
    IF i > Len(TONE_OPTIONS) THEN no_match(tone_clean)
    ELSE IF tone_matches(TONE_OPTIONS[i], tone_lower) THEN TONE_OPTIONS[i]
    ELSE closest_tone(tone_clean, tone_lower, i + 1)

\* normalize_tone, lines 82-95
normalize_tone(tone) ==
    IF tone = <<>> THEN Formal
    ELSE LET tone_clean == Capitalize(Strip(tone))
         IN  IF \E i \in 1..Len(TONE_OPTIONS) : TONE_OPTIONS[i] = tone_clean
                THEN tone_clean
                ELSE closest_tone(tone_clean, Lower(tone_clean), 1)

\* The pieces raw tone inputs are made of: " ", tab, "x", "formal", "al",
\* "form", "fRiEnDlY", "Friendly", "persuasive", "APOLOGETIC", "Assertive".
TonePieces ==
    { <<32>>, <<9>>, <<120>>,
      <<102,111,114,109,97,108>>, <<97,108>>, <<102,111,114,109>>,
      <<102,82,105,69,110,68,108,89>>, Friendly,
      <<112,101,114,115,117,97,115,105,118,101>>,
      <<65,80,79,76,79,71,69,84,73,67>>, Assertive }

RECURSIVE Pieced(_)
Pieced(n) ==
    IF n = 0 THEN {<<>>}
    ELSE LET shorter == Pieced(n - 1)
         IN  shorter \cup {s \o p : s \in shorter, p \in TonePieces}

\* The raw tone strings of the model.
ToneInputs == Pieced(MaxPieces)

\* One call of normalize_tone.
NormalizeTone ==
    /\ tone_pc = "input"
    /\ normalized' = normalize_tone(raw_tone)
    /\ tone_pc' = "done"
    /\ UNCHANGED <<raw_tone, tone_text, detected, analyze_pc, catalog,
                   tone_call>>

-----------------------------------------------------------------------------
(* services/tone_adapter.py: TONE_CHARACTERISTICS and analyze_tone         *)
\* TONE_CHARACTERISTICS["Formal"]
FormalMarkers ==
    [tone |-> Formal,
        \* "respectfully", "kindly", "accordingly", "pursuant",
        \* "regarding", "furthermore", "nevertheless", "therefore"
     words |-> <<
          <<114,101,115,112,101,99,116,102,117,108,108,121>>,
          <<107,105,110,100,108,121>>,
          <<97,99,99,111,114,100,105,110,103,108,121>>,
          <<112,117,114,115,117,97,110,116>>,
          <<114,101,103,97,114,100,105,110,103>>,
          <<102,117,114,116,104,101,114,109,111,114,101>>,
          <<110,101,118,101,114,116,104,101,108,101,115,115>>,
          <<116,104,101,114,101,102,111,114,101>> >>,
        \* "I am writing to", "please be advised", "as per our
        \* discussion", "thank you for your consideration", "at your
        \* earliest convenience"
     phrases |-> <<
          <<73,32,97,109,32,119,114,105,116,105,110,103,32,116,111>>,
          <<112,108,101,97,115,101,32,98,101,32,97,100,118,105,115,101,100>>,
          <<97,115,32,112,101,114,32,111,117,114,32,100,105,115,99,117,115,115,105,111,110>>,
          <<116,104,97,110,107,32,121,111,117,32,102,111,114,32,121,111,117,114,32,99,111,110,115,105,100,101,114,97,116,105,111,110>>,
          <<97,116,32,121,111,117,114,32,101,97,114,108,105,101,115,116,32,99,111,110,118,101,110,105,101,110,99,101>> >>,
        \* "hey", "yeah", "cool", "awesome", "thanks", "btw", "okay"
     avoid |-> <<
          <<104,101,121>>,
          <<121,101,97,104>>,
          <<99,111,111,108>>,
          <<97,119,101,115,111,109,101>>,
          <<116,104,97,110,107,115>>,
          <<98,116,119>>,
          <<111,107,97,121>> >>]

\* TONE_CHARACTERISTICS["Friendly"]
FriendlyMarkers ==
    [tone |-> Friendly,
        \* "great", "wonderful", "appreciate", "thanks", "helpful",
        \* "excited", "looking forward", "pleased"
     words |-> <<
          <<103,114,101,97,116>>,
          <<119,111,110,100,101,114,102,117,108>>,
          <<97,112,112,114,101,99,105,97,116,101>>,
          <<116,104,97,110,107,115>>,
          <<104,101,108,112,102,117,108>>,
          <<101,120,99,105,116,101,100>>,
          <<108,111,111,107,105,110,103,32,102,111,114,119,97,114,100>>,
          <<112,108,101,97,115,101,100>> >>,
        \* "hope you're doing well", "great to hear from you", "thanks
        \* so much", "looking forward to", "all the best"
     phrases |-> <<
          <<104,111,112,101,32,121,111,117,39,114,101,32,100,111,105,110,103,32,119,101,108,108>>,
          <<103,114,101,97,116,32,116,111,32,104,101,97,114,32,102,114,111,109,32,121,111,117>>,
          <<116,104,97,110,107,115,32,115,111,32,109,117,99,104>>,
          <<108,111,111,107,105,110,103,32,102,111,114,119,97,114,100,32,116,111>>,
          <<97,108,108,32,116,104,101,32,98,101,115,116>> >>,
        \* "hereby", "pursuant", "moreover", "thus", "henceforth"
     avoid |-> <<
          <<104,101,114,101,98,121>>,
          <<112,117,114,115,117,97,110,116>>,
          <<109,111,114,101,111,118,101,114>>,
          <<116,104,117,115>>,
          <<104,101,110,99,101,102,111,114,116,104>> >>]

\* TONE_CHARACTERISTICS["Persuasive"]
PersuasiveMarkers ==
    [tone |-> Persuasive,
        \* "opportunity", "benefit", "advantage", "valuable",
        \* "essential", "proven", "guaranteed", "exclusive"
     words |-> <<
          <<111,112,112,111,114,116,117,110,105,116,121>>,
          <<98,101,110,101,102,105,116>>,
          <<97,100,118,97,110,116,97,103,101>>,
          <<118,97,108,117,97,98,108,101>>,
          <<101,115,115,101,110,116,105,97,108>>,
          <<112,114,111,118,101,110>>,
          <<103,117,97,114,97,110,116,101,101,100>>,
          <<101,120,99,108,117,115,105,118,101>> >>,
        \* "you'll be pleased to know", "I'm confident that", "this
        \* will ensure", "consider the benefits", "imagine how"
     phrases |-> <<
          <<121,111,117,39,108,108,32,98,101,32,112,108,101,97,115,101,100,32,116,111,32,107,110,111,119>>,
          <<73,39,109,32,99,111,110,102,105,100,101,110,116,32,116,104,97,116>>,
          <<116,104,105,115,32,119,105,108,108,32,101,110,115,117,114,101>>,
          <<99,111,110,115,105,100,101,114,32,116,104,101,32,98,101,110,101,102,105,116,115>>,
          <<105,109,97,103,105,110,101,32,104,111,119>> >>,
        \* "maybe", "perhaps", "possibly", "might", "somewhat"
     avoid |-> <<
          <<109,97,121,98,101>>,
          <<112,101,114,104,97,112,115>>,
          <<112,111,115,115,105,98,108,121>>,
          <<109,105,103,104,116>>,
          <<115,111,109,101,119,104,97,116>> >>]

\* TONE_CHARACTERISTICS["Apologetic"]
ApologeticMarkers ==
    [tone |-> Apologetic,
        \* "apologize", "sorry", "regret", "understand",
        \* "inconvenience", "mistake", "error", "rectify"
     words |-> <<
          <<97,112,111,108,111,103,105,122,101>>,
          <<115,111,114,114,121>>,
          <<114,101,103,114,101,116>>,
          <<117,110,100,101,114,115,116,97,110,100>>,
          <<105,110,99,111,110,118,101,110,105,101,110,99,101>>,
          <<109,105,115,116,97,107,101>>,
          <<101,114,114,111,114>>,
          <<114,101,99,116,105,102,121>> >>,
        \* "I sincerely apologize", "please accept our apologies", "we
        \* understand your frustration", "we will make this right"
     phrases |-> <<
          <<73,32,115,105,110,99,101,114,101,108,121,32,97,112,111,108,111,103,105,122,101>>,
          <<112,108,101,97,115,101,32,97,99,99,101,112,116,32,111,117,114,32,97,112,111,108,111,103,105,101,115>>,
          <<119,101,32,117,110,100,101,114,115,116,97,110,100,32,121,111,117,114,32,102,114,117,115,116,114,97,116,105,111,110>>,
          <<119,101,32,119,105,108,108,32,109,97,107,101,32,116,104,105,115,32,114,105,103,104,116>> >>,
        \* "but", "however", "though", "excuse", "defend"
     avoid |-> <<
          <<98,117,116>>,
          <<104,111,119,101,118,101,114>>,
          <<116,104,111,117,103,104>>,
          <<101,120,99,117,115,101>>,
          <<100,101,102,101,110,100>> >>]

\* TONE_CHARACTERISTICS["Assertive"]
AssertiveMarkers ==
    [tone |-> Assertive,
        \* "will", "must", "require", "ensure", "immediate",
        \* "essential", "crucial", "necessary"
     words |-> <<
          <<119,105,108,108>>,
          <<109,117,115,116>>,
          <<114,101,113,117,105,114,101>>,
          <<101,110,115,117,114,101>>,
          <<105,109,109,101,100,105,97,116,101>>,
          <<101,115,115,101,110,116,105,97,108>>,
          <<99,114,117,99,105,97,108>>,
          <<110,101,99,101,115,115,97,114,121>> >>,
        \* "I expect", "please ensure that", "it is essential", "this
        \* requires immediate attention", "I need"
     phrases |-> <<
          <<73,32,101,120,112,101,99,116>>,
          <<112,108,101,97,115,101,32,101,110,115,117,114,101,32,116,104,97,116>>,
          <<105,116,32,105,115,32,101,115,115,101,110,116,105,97,108>>,
          <<116,104,105,115,32,114,101,113,117,105,114,101,115,32,105,109,109,101,100,105,97,116,101,32,97,116,116,101,110,116,105,111,110>>,
          <<73,32,110,101,101,100>> >>,
        \* "maybe", "kind of", "sort of", "hopefully", "if possible"
     avoid |-> <<
          <<109,97,121,98,101>>,
          <<107,105,110,100,32,111,102>>,
          <<115,111,114,116,32,111,102>>,
          <<104,111,112,101,102,117,108,108,121>>,
          <<105,102,32,112,111,115,115,105,98,108,101>> >>]

\* The dictionary TONE_CHARACTERISTICS (lines 4-70), its items in insertion
\* order.
TONE_CHARACTERISTICS ==
    <<FormalMarkers, FriendlyMarkers, PersuasiveMarkers, ApologeticMarkers, AssertiveMarkers>>

\* The fragments at most this many of which make a text given to
\* analyze_tone.
MaxFragments == 2

\* Lines 148-150, 152-154, 157-159: how many of the markers occur in the
\* lower-cased text.
RECURSIVE markers_found(_, _)
markers_found(markers, text_lower) ==
    IF markers = <<>> THEN 0
    ELSE (IF Contains(Lower(Head(markers)), text_lower) THEN 1 ELSE 0)
             + markers_found(Tail(markers), text_lower)

\* A variant of phrase_score in which a phrase counts like a word.
phrase_score_as_word(found) == found

\* Line 154: a phrase adds 2 to the score.
phrase_score(found) == 2 * found

\* Lines 144-161: the score of one tone, the fraction num/den.
tone_score(chars, text_lower) ==
    [num |-> markers_found(chars.words, text_lower)
               + phrase_score(markers_found(chars.phrases, text_lower))
               - markers_found(chars.avoid, text_lower),
     den |-> Len(chars.words) + Len(chars.phrases)]

\* a < b for fractions with positive denominators
FracLess(a, b) == a.num * b.den < b.num * a.den

\* A variant of max_replaces in which a later item with an equal score
\* replaces the maximum.
max_replaces_on_tie(item, best) == ~FracLess(item, best)

\* max(): a later item replaces the maximum found so far only when its key
\* is greater.
max_replaces(item, best) == FracLess(best, item)

\* Line 164, max(scores.items(), key=...): the index of the maximum, the
\* items taken in the order of the dictionary.
RECURSIVE max_item(_, _, _)
max_item(scores, i, best) ==
    IF i > Len(scores) THEN best
    ELSE max_item(scores, i + 1,
                  IF max_replaces(scores[i], scores[best]) THEN i ELSE best)

\* Line 165: min(1.0, score).
cap_confidence(score) ==
    IF score.num > score.den THEN [num |-> 1, den |-> 1] ELSE score

\* analyze_tone, lines 131-165.
analyze_tone(text) ==
    LET text_lower == Lower(text)
        scores == [i \in 1..Len(TONE_CHARACTERISTICS) |->
                      tone_score(TONE_CHARACTERISTICS[i], text_lower)]
        detected_tone == max_item(scores, 2, 1)
    IN  [tone |-> TONE_CHARACTERISTICS[detected_tone].tone,
         confidence |-> cap_confidence(scores[detected_tone])]

\* The fragments of the texts that mix markers of several tones:
\* "hey hereby maybe but", "THANKS", "essential", "sorry", "however",
\* "pursuant", and the five phrases of Assertive in a row,
\* "I expect please ensure that it is essential this requires immediate
\* attention I need".
MarkerFragments ==
    { <<104,101,121,32,104,101,114,101,98,121,32,109,97,121,98,101,32,98,117,116>>,
      <<84,72,65,78,75,83>>, <<101,115,115,101,110,116,105,97,108>>, <<115,111,114,114,121>>, <<104,111,119,101,118,101,114>>, <<112,117,114,115,117,97,110,116>>,
      <<73,32,101,120,112,101,99,116,32,112,108,101,97,115,101,32,101,110,115,117,114,101,32,116,104,97,116,32,105,116,32,105,115,32,101,115,115,101,110,116,105,97,108,32,116,104,105,115,32,114,101,113,117,105,114,101,115,32,105,109,109,101,100,105,97,116,101,32,97,116,116,101,110,116,105,111,110,32,73,32,110,101,101,100>> }

\* The texts of at most n of the fragments, joined by a space.
RECURSIVE Joined(_, _)
Joined(fragments, n) ==
    IF n = 1 THEN fragments
    ELSE LET shorter == Joined(fragments, n - 1)
         IN  shorter \cup {s \o <<32>> \o f : s \in shorter, f \in fragments}

\* The texts made only of phrases of one tone.
PhraseTexts ==
    UNION {Joined({TONE_CHARACTERISTICS[i].phrases[k] :
                       k \in 1..Len(TONE_CHARACTERISTICS[i].phrases)},
                  MaxFragments) : i \in 1..Len(TONE_CHARACTERISTICS)}

\* The texts of the model.
AnalyzeTexts == {<<>>} \cup PhraseTexts \cup Joined(MarkerFragments, MaxFragments)

NoDetected == [tone |-> <<>>, confidence |-> [num |-> 0, den |-> 1]]

\* One call of analyze_tone.
AnalyzeTone ==
    /\ analyze_pc = "input"
    /\ detected' = analyze_tone(tone_text)
    /\ analyze_pc' = "done"
    /\ UNCHANGED <<raw_tone, normalized, tone_pc, tone_text, catalog,
                   tone_call>>

\* The catalogs as the process holds them after the modules are loaded:
\* services.tone_adapter.TONE_CHARACTERISTICS, services.generator's
\* TONE_DESCRIPTIONS and TONE_EXAMPLES, and config.TONE_OPTIONS.
Catalogs ==
    [TONE_CHARACTERISTICS |-> TONE_CHARACTERISTICS,
     TONE_DESCRIPTIONS    |-> TONE_DESCRIPTIONS,
     TONE_EXAMPLES        |-> TONE_EXAMPLES,
     TONE_OPTIONS         |-> TONE_OPTIONS]

NoToneCall == [fn |-> "none", tone |-> <<>>, status |-> "none", value |-> <<>>]

\* Line 107, TONE_CHARACTERISTICS.get(tone, TONE_CHARACTERISTICS["Formal"]):
\* the place in the catalog of the dictionary that is returned. The
\* dictionary itself is returned, not a copy of it.
get_tone_characteristics(characteristics, tone) ==
    LET found == {i \in 1..Len(characteristics) :
                     characteristics[i].tone = tone}
    IN  IF found # {}
           THEN CHOOSE i \in found : TRUE
           ELSE CHOOSE i \in 1..Len(characteristics) :
                    characteristics[i].tone = Formal

\* A variant of slice that shortens the list itself (del list[n:]).
slice_in_place(list, n) ==
    LET kept == SubSeq(list, 1, IF n < Len(list) THEN n ELSE Len(list))
    IN  [value |-> kept, list |-> kept]

\* list[:n] of lines 124 and 126: the value is a new list of the first n
\* elements, and the list that was sliced is as it was.
slice(list, n) ==
    [value |-> SubSeq(list, 1, IF n < Len(list) THEN n ELSE Len(list)),
     list  |-> list]

\* sep.join(list)
RECURSIVE join(_, _)
join(sep, list) ==
    IF list = <<>> THEN <<>>
    ELSE IF Len(list) = 1 THEN list[1]
    ELSE list[1] \o sep \o join(sep, Tail(list))

\* get_tone_prompt_prefix, lines 119-129, on the dictionary chars that
\* get_tone_characteristics returned: the returned string, and what the
\* dictionary holds after the call. tone.lower() raises for a tone that is
\* no str, before any list is sliced.
get_tone_prompt_prefix(chars, tone) ==
    IF ~IsStr(tone)
       THEN [status |-> "raised", value |-> <<>>, characteristics |-> chars]
       ELSE LET words   == slice(chars.words, 3)
                phrases == slice(chars.phrases, 2)
                avoid   == slice(chars.avoid, 3)
                prompt_parts ==
                    << <<87,114,105,116,101,32,105,110,32,97,32>> \o Lower(tone) \o
                           <<32,116,111,110,101,44,32,105,110,99,111,114,112,111,114,97,116,105,110,103,32,116,104,101,115,101,32,101,108,101,109,101,110,116,115,58>>,
                       <<10>> \o <<80,114,101,102,101,114,114,101,100,32,119,111,114,100,115,32,97,110,100,32,112,104,114,97,115,101,115,58>>,
                       join(<<44,32>>, words.value \o phrases.value),
                       <<10>> \o <<65,118,111,105,100,58>>,
                       join(<<44,32>>, avoid.value) >>
            IN  [status |-> "returned",
                 value  |-> join(<<10>>, prompt_parts),
                 characteristics |->
                     [chars EXCEPT !.words = words.list,
                                   !.phrases = phrases.list,
                                   !.avoid = avoid.list]]

\* One call of get_tone_characteristics (lines 97-107).
GetToneCharacteristics ==
    \E tone \in ToneArgs :
        /\ tone_call' =
              [fn |-> "get_tone_characteristics", tone |-> tone,
               status |-> "returned",
               value |-> catalog.TONE_CHARACTERISTICS[
                   get_tone_characteristics(catalog.TONE_CHARACTERISTICS,
                                            tone)]]
        /\ UNCHANGED <<raw_tone, normalized, tone_pc, tone_text, detected,
                       analyze_pc, catalog>>

\* One call of get_tone_prompt_prefix (lines 109-129). The dictionary it
\* works on is the one inside TONE_CHARACTERISTICS.
GetTonePromptPrefix ==
    \E tone \in ToneArgs :
        LET i == get_tone_characteristics(catalog.TONE_CHARACTERISTICS, tone)
            r == get_tone_prompt_prefix(catalog.TONE_CHARACTERISTICS[i], tone)
        IN  /\ tone_call' =
                  [fn |-> "get_tone_prompt_prefix", tone |-> tone,
                   status |-> r.status, value |-> r.value]
            /\ catalog' =
                  [catalog EXCEPT !.TONE_CHARACTERISTICS[i] = r.characteristics]
            /\ UNCHANGED <<raw_tone, normalized, tone_pc, tone_text, detected,
                           analyze_pc>>

\* The texts given to adjust_tone: "hey" and "Kindly reply."
AdjustTexts == {<<104,101,121>>, <<75,105,110,100,108,121,32,114,101,112,108,121,46>>}

\* One call of adjust_tone (lines 168-174): the text is returned as it is.
AdjustTone ==
    \E text \in AdjustTexts, target_tone \in ToneArgs :
        /\ tone_call' = [fn |-> "adjust_tone", tone |-> target_tone,
                         status |-> "returned", value |-> text]
        /\ UNCHANGED <<raw_tone, normalized, tone_pc, tone_text, detected,
                       analyze_pc, catalog>>

\* No call of analyze_tone.
AnalyzeIdle ==
    /\ tone_text = <<>>
    /\ detected = NoDetected
    /\ analyze_pc = "idle"
    /\ catalog = Catalogs
    /\ tone_call = NoToneCall

ToneIdle ==
    /\ raw_tone = <<>>
    /\ normalized = <<>>
    /\ tone_pc = "idle"
    /\ AnalyzeIdle

-----------------------------------------------------------------------------
(* services/resume_matcher.py                                              *)
(*                                                                         *)
(* A text is a sequence of tokens: words (letters only) and the            *)
(* punctuation marks ".", "," and ":". In the string the text stands for,  *)
(* a word is preceded by one space and a punctuation mark follows its word *)
(* directly. Skills, sentences and keywords are strings (sequences of      *)
(* character codes), as in the code.                                       *)

Period == <<46>>
Comma  == <<44>>
Colon  == <<58>>

IsWordTok(tok) == tok \notin {Period, Comma, Colon}

\* The string a token sequence stands for.
RECURSIVE Render(_)
Render(toks) ==
    IF toks = <<>> THEN <<>>
    ELSE IF Len(toks) = 1 THEN toks[1]
    ELSE LET front == Render(SubSeq(toks, 1, Len(toks) - 1))
             last  == toks[Len(toks)]
         IN  IF IsWordTok(last) THEN front \o <<32>> \o last ELSE front \o last

\* nltk's English stop words (those that occur in the texts of the model):
\* "in", "and", "a", "we", "are", "have", "the", "is", "of", "to", "with",
\* "for"
stop_words ==
    { <<105,110>>, <<97,110,100>>, <<97>>, <<119,101>>, <<97,114,101>>, <<104,97,118,101>>, <<116,104,101>>, <<105,115>>, <<111,102>>, <<116,111>>,
      <<119,105,116,104>>, <<102,111,114>> }

\* doc.ents restricted to the labels ORG, PRODUCT and LANGUAGE (lines 33-35):
\* the occurrences in the text of the phrases the loaded spaCy model tags so.
doc_ents(toks) ==
    {Render(e) : e \in {p \in ner :
        \E i \in 0..(Len(toks) - Len(p)) : SubSeq(toks, i + 1, i + Len(p)) = p}}

\* Line 39, r'\b[A-Za-z+#]+(?:\.[A-Za-z+]+)*\b': every word of the text.
pattern_tools(toks) == {toks[i] : i \in {j \in 1..Len(toks) : IsWordTok(toks[j])}}

\* Line 40, r'\b[A-Z][A-Za-z]*(?:\s+[A-Z][A-Za-z]*)*\b' under re.IGNORECASE:
\* [A-Z] matches any letter, so a match is a maximal run of words separated
\* by white space only.
pattern_capitalized(toks) ==
    {Render(SubSeq(toks, i, j)) : <<i, j>> \in
        {r \in (1..Len(toks)) \X (1..Len(toks)) :
            /\ r[1] <= r[2]
            /\ \A k \in r[1]..r[2] : IsWordTok(toks[k])
            /\ r[1] = 1 \/ ~IsWordTok(toks[r[1] - 1])
            /\ r[2] = Len(toks) \/ ~IsWordTok(toks[r[2] + 1])}}

\* The last token of the match of line 41 that starts at token i: the match
\* runs up to the next "," or "." (or the end of the text).
RECURSIVE statement_end(_, _)
statement_end(toks, j) ==
    IF j < Len(toks) /\ toks[j + 1] \notin {Comma, Period}
       THEN statement_end(toks, j + 1)
       ELSE j

\* Line 41, r'\b(?:proficient|experienced|skilled)\s+in\s+([^,.]+)': found
\* from token i on by re.finditer (matches do not overlap); match.group() is
\* the whole statement.
RECURSIVE pattern_statements(_, _)
pattern_statements(toks, i) ==
    IF i + 2 > Len(toks) THEN {}
    ELSE IF /\ Lower(toks[i]) \in {<<112,114,111,102,105,99,105,101,110,116>>, <<101,120,112,101,114,105,101,110,99,101,100>>, <<115,107,105,108,108,101,100>>}
            /\ Lower(toks[i + 1]) = <<105,110>>
            /\ IsWordTok(toks[i + 2])
         THEN LET j == statement_end(toks, i + 2)
              IN  {Render(SubSeq(toks, i, j))} \cup pattern_statements(toks, j + 1)
         ELSE pattern_statements(toks, i + 1)

\* A variant of skill_filter that keeps the short terms.
skill_filter_keeps_short(skill) == skill \notin stop_words

\* Line 49: the filter on the collected skills.
skill_filter(skill) == Len(skill) > 2 /\ skill \notin stop_words

\* Lines 29-49 of extract_skills, as the set of the returned list's elements.
skill_set(toks) ==
    LET matches == pattern_tools(toks) \cup pattern_capitalized(toks)
                       \cup pattern_statements(toks, 1)
        skills  == {Lower(e) : e \in doc_ents(toks)} \cup {Lower(g) : g \in matches}
    IN  {skill \in skills : skill_filter(skill)}

\* The order of strings by their character codes.
StrLess(a, b) ==
    \E k \in 1..(Len(a) + 1) :
        /\ k <= Len(b)
        /\ \A i \in 1..(k - 1) : a[i] = b[i]
        /\ k = Len(a) + 1 \/ a[k] < b[k]

\* The iteration order of a Python set of strings. It depends on the hashes
\* of the strings, which the process fixes at start (PYTHONHASHSEED): one of
\* two orders here, the same for every set of the process.
RECURSIVE set_order(_)
set_order(S) ==
    IF S = {} THEN <<>>
    ELSE LET x == IF hash_seed = 0
                     THEN CHOOSE y \in S : \A z \in S \ {y} : StrLess(y, z)
                     ELSE CHOOSE y \in S : \A z \in S \ {y} : StrLess(z, y)
         IN  <<x>> \o set_order(S \ {x})

\* extract_skills (lines 25-49): the list made from the set.
extract_skills(toks) == set_order(skill_set(toks))

\* doc.sents (line 87): a sentence ends with its "."; what follows the last
\* "." is a sentence too.
RECURSIVE doc_sents(_)
doc_sents(toks) ==
    IF toks = <<>> THEN <<>>
    ELSE LET ends == {i \in 1..Len(toks) : toks[i] = Period}
         IN  IF ends = {} THEN <<toks>>
             ELSE LET e == CHOOSE i \in ends : \A j \in ends : i <= j
                  IN  <<SubSeq(toks, 1, e)>> \o doc_sents(SubSeq(toks, e + 1, Len(toks)))

\* any(word in text for word in [...]) of lines 89-95
any_in(keywords, text) == \E word \in keywords : Contains(word, text)

\* A variant of bucket that tests the experience keywords before the
\* preferred ones.
bucket_experience_first(text) ==
    IF any_in({<<114,101,113,117,105,114,101,100>>, <<109,117,115,116,32,104,97,118,101>>, <<101,115,115,101,110,116,105,97,108>>}, text) THEN "required_skills"
    ELSE IF any_in({<<101,120,112,101,114,105,101,110,99,101>>, <<121,101,97,114>>}, text) THEN "experience"
    ELSE IF any_in({<<112,114,101,102,101,114,114,101,100>>, <<100,101,115,105,114,101,100>>, <<112,108,117,115>>}, text) THEN "preferred_skills"
    ELSE IF any_in({<<100,101,103,114,101,101>>, <<101,100,117,99,97,116,105,111,110>>, <<99,101,114,116,105,102,105,99,97,116,105,111,110>>}, text) THEN "education"
    ELSE "none"

\* The if/elif chain of lines 89-96 on the lower-cased sentence.
bucket(text) ==
    IF any_in({<<114,101,113,117,105,114,101,100>>, <<109,117,115,116,32,104,97,118,101>>, <<101,115,115,101,110,116,105,97,108>>}, text) THEN "required_skills"
    ELSE IF any_in({<<112,114,101,102,101,114,114,101,100>>, <<100,101,115,105,114,101,100>>, <<112,108,117,115>>}, text) THEN "preferred_skills"
    ELSE IF any_in({<<101,120,112,101,114,105,101,110,99,101>>, <<121,101,97,114>>}, text) THEN "experience"
    ELSE IF any_in({<<100,101,103,114,101,101>>, <<101,100,117,99,97,116,105,111,110>>, <<99,101,114,116,105,102,105,99,97,116,105,111,110>>}, text) THEN "education"
    ELSE "none"

\* Lines 87-96: the loop over the sentences from sentence i on.
RECURSIVE analyze_sentences(_, _, _)
analyze_sentences(sents, i, requirements) ==
    IF i > Len(sents) THEN requirements
    ELSE LET sent == sents[i]
             b    == bucket(Lower(Render(sent)))
         IN  analyze_sentences(sents, i + 1,
                CASE b = "required_skills" ->
                        [requirements EXCEPT !.required_skills = @ \o extract_skills(sent)]
                  [] b = "preferred_skills" ->
                        [requirements EXCEPT !.preferred_skills = @ \o extract_skills(sent)]
                  [] b = "experience" ->
                        [requirements EXCEPT !.experience = Append(@, Render(sent))]
                  [] b = "education" ->
                        [requirements EXCEPT !.education = Append(@, Render(sent))]
                  [] OTHER -> requirements)

\* analyze_requirements, lines 74-98
analyze_requirements(job) ==
    analyze_sentences(doc_sents(job), 1,
        [required_skills |-> <<>>, preferred_skills |-> <<>>,
         experience |-> <<>>, education |-> <<>>])

\* Line 64: the tokens clean_text keeps
keep_token(token) == token \notin stop_words /\ Len(token) > 2

\* Line 69, lemmatizer.lemmatize(token): WordNet's noun lemma, which differs
\* from the token for the plurals "years" and "services" of the model's texts.
lemmatize(token) ==
    IF token \in {<<121,101,97,114,115>>, <<115,101,114,118,105,99,101,115>>} THEN SubSeq(token, 1, Len(token) - 1)
    ELSE token

\* clean_text, lines 51-72: the tokens of the cleaned text (the function
\* joins them with spaces and TfidfVectorizer splits them again).
clean_text(toks) ==
    LET words   == SelectSeq(toks, IsWordTok)
        lowered == [i \in 1..Len(words) |-> Lower(words[i])]
        kept    == SelectSeq(lowered, keep_token)
    IN  [i \in 1..Len(kept) |-> lemmatize(kept[i])]

Terms(doc) == {doc[i] : i \in 1..Len(doc)}

term_count(doc, t) == Cardinality({i \in 1..Len(doc) : doc[i] = t})

RECURSIVE SumOver(_, _, _)
SumOver(S, a, b) ==
    IF S = {} THEN 0
    ELSE LET t == CHOOSE x \in S : TRUE
         IN  term_count(a, t) * term_count(b, t) + SumOver(S \ {t}, a, b)

\* floor of the square root
RECURSIVE ISqrtIn(_, _, _)
ISqrtIn(x, lo, hi) ==
    IF lo = hi THEN lo
    ELSE LET mid == (lo + hi + 1) \div 2
         IN  IF mid * mid <= x THEN ISqrtIn(x, mid, hi) ELSE ISqrtIn(x, lo, mid - 1)

ISqrt(x) == ISqrtIn(x, 0, 46340)

\* TfidfVectorizer's smoothed idf, squared, in hundredths, of a term that is
\* in one of the two documents only: (ln(3/2) + 1)^2 = 1.975; a term of both
\* documents has idf ln(3/3) + 1 = 1.
IdfSquared == 198

\* The squared length, in hundredths, of the tf-idf vector of doc.
norm_squared(doc, other) ==
    100 * SumOver(Terms(doc) \cap Terms(other), doc, doc)
        + IdfSquared * SumOver(Terms(doc) \ Terms(other), doc, doc)

\* Lines 122-124 and 136: the cosine similarity of the tf-idf vectors of the
\* two cleaned texts, times 100, in hundredths of a point (fixed point).
content_similarity(resume_clean, job_clean) ==
    LET dot == SumOver(Terms(resume_clean) \cap Terms(job_clean),
                       resume_clean, job_clean)
    IN  IF dot = 0 THEN 0
        ELSE (1000000 * dot) \div
                 ISqrt(norm_squared(resume_clean, job_clean)
                           * norm_squared(job_clean, resume_clean))

\* Lines 118-119: a match ratio, as a fraction; 1.0 for an empty skill set.
match_ratio(matched, wanted) ==
    IF wanted # {} THEN [num |-> Cardinality(matched), den |-> Cardinality(wanted)]
    ELSE [num |-> 1, den |-> 1]

\* A variant of weights with the last two weights exchanged.
weights_exchanged ==
    [required_skills |-> 4, preferred_skills |-> 4, content_similarity |-> 2]

\* Lines 127-131: the weights, in tenths.
weights ==
    [required_skills |-> 4, preferred_skills |-> 2, content_similarity |-> 4]

\* Line 142, int(overall_score), of the fraction num/den >= 0.
to_int(num, den) == num \div den

\* Lines 133-142: the category scores (fractions num/den) and the overall
\* score.
scores(required_match, preferred_match, similarity) ==
    LET detailed_scores ==
            [required_skills    |-> [num |-> 100 * required_match.num,
                                     den |-> required_match.den],
             preferred_skills   |-> [num |-> 100 * preferred_match.num,
                                     den |-> preferred_match.den],
             content_similarity |-> [num |-> similarity, den |-> 100]]
        r == detailed_scores.required_skills
        p == detailed_scores.preferred_skills
        c == detailed_scores.content_similarity
        overall_num == weights.required_skills * r.num * p.den * c.den
                         + weights.preferred_skills * p.num * r.den * c.den
                         + weights.content_similarity * c.num * r.den * p.den
    IN  [status |-> "returned",
         overall |-> to_int(overall_num, 10 * r.den * p.den * c.den),
         detailed_scores |-> detailed_scores]

\* A call of compute_match_score without scores: not made yet ("none"), or
\* left by the exception of fit_transform ("raised").
NoScores(status) ==
    [status |-> status, overall |-> 0,
     detailed_scores |-> [required_skills    |-> [num |-> 0, den |-> 1],
                          preferred_skills   |-> [num |-> 0, den |-> 1],
                          content_similarity |-> [num |-> 0, den |-> 1]]]

\* A variant of resume_skill_set that takes the first two skills of the list
\* only.
resume_skill_set_capped(resume) ==
    LET skills == extract_skills(resume)
    IN  Terms(SubSeq(skills, 1, IF Len(skills) < 2 THEN Len(skills) ELSE 2))

\* Line 112: set(extract_skills(resume_text)).
resume_skill_set(resume) == Terms(extract_skills(resume))

\* compute_match_score, lines 100-142. TfidfVectorizer.fit_transform raises
\* ValueError ("empty vocabulary") when neither cleaned text has a token.
compute_match_score(resume, job) ==
    LET resume_clean     == clean_text(resume)
        job_clean        == clean_text(job)
        resume_skills    == resume_skill_set(resume)
        job_reqs         == analyze_requirements(job)
        required_skills  == Terms(job_reqs.required_skills)
        preferred_skills == Terms(job_reqs.preferred_skills)
        required_match   == match_ratio(resume_skills \cap required_skills, required_skills)
        preferred_match  == match_ratio(resume_skills \cap preferred_skills, preferred_skills)
    IN  IF Terms(resume_clean) \cup Terms(job_clean) = {} THEN NoScores("raised")
        ELSE scores(required_match, preferred_match,
                    content_similarity(resume_clean, job_clean))

\* The phrases the spaCy model may tag ORG, PRODUCT or LANGUAGE:
\* "Amazon Web Services", "AWS".
EntityPhrases == { <<<<65,109,97,122,111,110>>, <<87,101,98>>, <<83,101,114,118,105,99,101,115>>>>, <<<<65,87,83>>>> }

\* The resumes of the model: "", "Experienced in Python and AWS", "SQL",
\* "Python, SQL, AWS.", "Amazon Web Services and SQL",
\* "Must have SQL and Degree".
ResumeTexts ==
    { <<>>,
      <<<<69,120,112,101,114,105,101,110,99,101,100>>, <<105,110>>, <<80,121,116,104,111,110>>, <<97,110,100>>, <<65,87,83>>>>,
      <<<<83,81,76>>>>,
      <<<<80,121,116,104,111,110>>, Comma, <<83,81,76>>, Comma, <<65,87,83>>, Period>>,
      <<<<65,109,97,122,111,110>>, <<87,101,98>>, <<83,101,114,118,105,99,101,115>>, <<97,110,100>>, <<83,81,76>>>>,
      <<<<77,117,115,116>>, <<104,97,118,101>>, <<83,81,76>>, <<97,110,100>>, <<68,101,103,114,101,101>>>> }

\* The sentences job descriptions are made of: "Required: Python, SQL.",
\* "Preferred: AWS.", "Must have SQL.", "AWS experience a plus.",
\* "Five years experience.", "Degree required.", "We are.",
\* "Degree in Python.", "Required: Amazon Web Services."
JobSentences ==
    { <<<<82,101,113,117,105,114,101,100>>, Colon, <<80,121,116,104,111,110>>, Comma, <<83,81,76>>, Period>>,
      <<<<80,114,101,102,101,114,114,101,100>>, Colon, <<65,87,83>>, Period>>,
      <<<<77,117,115,116>>, <<104,97,118,101>>, <<83,81,76>>, Period>>,
      <<<<65,87,83>>, <<101,120,112,101,114,105,101,110,99,101>>, <<97>>, <<112,108,117,115>>, Period>>,
      <<<<70,105,118,101>>, <<121,101,97,114,115>>, <<101,120,112,101,114,105,101,110,99,101>>, Period>>,
      <<<<68,101,103,114,101,101>>, <<114,101,113,117,105,114,101,100>>, Period>>,
      <<<<87,101>>, <<97,114,101>>, Period>>,
      <<<<68,101,103,114,101,101>>, <<105,110>>, <<80,121,116,104,111,110>>, Period>>,
      <<<<82,101,113,117,105,114,101,100>>, Colon, <<65,109,97,122,111,110>>, <<87,101,98>>, <<83,101,114,118,105,99,101,115>>, Period>> }

RECURSIVE Sentences(_)
Sentences(n) ==
    IF n = 0 THEN {<<>>}
    ELSE LET shorter == Sentences(n - 1)
         IN  shorter \cup {d \o s : d \in shorter, s \in JobSentences}

\* The job descriptions of the model.
JobDescriptions == Sentences(MaxJobSentences)

\* A variant of not_in_resume built from sets: each missing skill once.
not_in_resume_distinct(skills, resume_skills) ==
    set_order(Terms(skills) \ resume_skills)

\* The list comprehensions of lines 152-155: the skills of the list, in
\* order, that are not resume skills.
RECURSIVE not_in_resume(_, _)
not_in_resume(skills, resume_skills) ==
    IF skills = <<>> THEN <<>>
    ELSE (IF Head(skills) \in resume_skills THEN <<>> ELSE <<Head(skills)>>)
             \o not_in_resume(Tail(skills), resume_skills)

\* get_missing_requirements, lines 144-158.
get_missing_requirements(resume, job) ==
    LET resume_skills == Terms(extract_skills(resume))
        job_reqs      == analyze_requirements(job)
    IN  [required  |-> not_in_resume(job_reqs.required_skills, resume_skills),
         preferred |-> not_in_resume(job_reqs.preferred_skills, resume_skills)]

\* One call of get_missing_requirements on the arguments of the model, made
\* after the call of compute_match_score has ended (returned or raised), the
\* order of lines 173-174.
GetMissingRequirements ==
    /\ match_pc = "done"
    /\ missing.status = "none"
    /\ missing' = [status |-> "returned"] @@
                     get_missing_requirements(resume_text, job_description)
    /\ UNCHANGED <<resume_text, job_description, ner, hash_seed, match_pc,
                   match_result, match_again, job_requirements, extracted>>

\* One call of compute_match_score.
ComputeMatchScore ==
    /\ match_pc = "input"
    /\ match_result' = compute_match_score(resume_text, job_description)
    /\ match_pc' = "done"
    /\ UNCHANGED <<resume_text, job_description, ner, hash_seed, missing,
                   match_again, job_requirements, extracted>>

\* No call of analyze_requirements yet.
NoRequirements ==
    [status |-> "none", required_skills |-> <<>>, preferred_skills |-> <<>>,
     experience |-> <<>>, education |-> <<>>]

\* One call of analyze_requirements on the job description of the model.
AnalyzeRequirements ==
    /\ match_pc = "input"
    /\ job_requirements.status = "none"
    /\ job_requirements' = [status |-> "returned"] @@
                              analyze_requirements(job_description)
    /\ UNCHANGED <<resume_text, job_description, ner, hash_seed, match_pc,
                   match_result, missing, match_again, extracted>>

\* No call of extract_skills yet.
NoSkills == [status |-> "none", list |-> <<>>]

\* The texts extract_skills is called on: the resumes and job descriptions
\* of the model and "Skilled in Go, SQL.", "SQL, sql and Sql.", "C and R."
SkillTexts ==
    ResumeTexts \cup JobDescriptions \cup
    { <<<<83,107,105,108,108,101,100>>, <<105,110>>, <<71,111>>, Comma, <<83,81,76>>, Period>>,
      <<<<83,81,76>>, Comma, <<115,113,108>>, <<97,110,100>>, <<83,113,108>>, Period>>,
      <<<<67>>, <<97,110,100>>, <<82>>, Period>> }

\* One call of extract_skills.
ExtractSkills ==
    /\ match_pc = "input"
    /\ extracted.status = "none"
    /\ extracted' = [status |-> "returned", list |-> extract_skills(resume_text)]
    /\ UNCHANGED <<resume_text, job_description, ner, hash_seed, match_pc,
                   match_result, missing, match_again, job_requirements>>

\* No call of get_missing_requirements yet.
NoMissing == [status |-> "none", required |-> <<>>, preferred |-> <<>>]

\* The program runs again in a new interpreter process, whose string hash
\* seed, and with it the iteration order of sets of strings, is another one.
NewProcess ==
    /\ match_pc = "done"
    /\ hash_seed' \in {0, 1} \ {hash_seed}
    /\ match_pc' = "restarted"
    /\ UNCHANGED <<resume_text, job_description, ner, match_result, missing,
                   match_again, job_requirements, extracted>>

\* A second call of compute_match_score on the same arguments, in the same
\* process or in a new one.
ComputeMatchScoreAgain ==
    /\ match_pc \in {"done", "restarted"}
    /\ match_again.status = "none"
    /\ match_again' = compute_match_score(resume_text, job_description)
    /\ UNCHANGED <<resume_text, job_description, ner, hash_seed, match_pc,
                   match_result, missing, job_requirements, extracted>>

MatchIdle ==
    /\ resume_text = <<>>
    /\ job_description = <<>>
    /\ ner = {}
    /\ hash_seed = 0
    /\ match_pc = "idle"
    /\ match_result = NoScores("none")
    /\ missing = NoMissing
    /\ match_again = NoScores("none")
    /\ job_requirements = NoRequirements
    /\ extracted = NoSkills

-----------------------------------------------------------------------------
(* services/generator.py                                                   *)

\* A context string written by a client; the fields are those of the string
\* generate_application_email assembles.
ClientContext ==
    [kind |-> "client", resume_skills |-> <<>>, required |-> <<>>,
     preferred |-> <<>>, match_score |-> 0, tone |-> <<>>]

\* The value None of an optional argument.
None == <<-1>>

\* The recipient names of the model's callers: None, "" and "Ann".
RecipientNames == {None, <<>>, <<65,110,110>>}

\* The truth value Python gives an optional string: None and "" are false.
truthy(value) == value # None /\ value # <<>>

\* str.replace(old, new) for a non-empty old: the occurrences of old, found
\* from left to right without overlap, are replaced by new.
RECURSIVE replace(_, _, _)
replace(s, old, new) ==
    IF Len(s) < Len(old) THEN s
    ELSE IF SubSeq(s, 1, Len(old)) = old
            THEN new \o replace(SubSeq(s, Len(old) + 1, Len(s)), old, new)
            ELSE <<s[1]>> \o replace(Tail(s), old, new)

NoPrompt == [start_with |-> <<>>, end_with |-> <<>>]

\* Line 68: the greeting line of the prompt, the greeting of line 52 when a
\* recipient name is given and 'Dear Sir/Madam,' otherwise.
start_with(tone, greeting, recipient_name) ==
    IF truthy(recipient_name)
       THEN greeting
       ELSE <<68,101,97,114,32,83,105,114,47,77,97,100,97,109,44>>  \* "Dear Sir/Madam,"

\* Lines 52-73 of generate_email_with_gpt for a tone that is a key of
\* TONE_EXAMPLES: the lines "Start with" and "End with" of the prompt.
gpt_prompt(tone, recipient_name) ==
    LET greeting == replace(TONE_EXAMPLES[tone].greeting,
                            <<91,78,97,109,101,93>>,             \* "[Name]"
                            IF truthy(recipient_name) THEN recipient_name
                                                      ELSE <<>>)
    IN  [start_with |-> start_with(tone, greeting, recipient_name),
         end_with   |-> TONE_EXAMPLES[tone].closing]

NoCall == [caller |-> "none", subject |-> "none", context |-> ClientContext,
           tone |-> Formal, use_gpt |-> TRUE,
           recipient_name |-> None, user_id |-> 0, count0 |-> 0]

NoResult == [content |-> "none", tone |-> Formal, model_used |-> "none"]

\* The body of generate_email up to the choice of the backend (lines 137-141).
generate_email(caller, subject, context, tone, recipient_name, use_gpt, user_id) ==
    /\ pc = "idle"
    /\ call' = [caller |-> caller, subject |-> subject, context |-> context,
                tone |-> tone, use_gpt |-> use_gpt,
                recipient_name |-> recipient_name, user_id |-> user_id,
                count0 |-> email_generation_count]
    /\ pc' = IF use_gpt THEN "gpt_prompt" ELSE "hf_prompt"
    /\ gpt_calls' = 0
    /\ hf_calls' = 0
    /\ gpt_status' = "none"
    /\ hf_status' = "none"
    /\ content' = "none"
    /\ result' = NoResult
    /\ outcome' = "none"
    /\ prompt' = NoPrompt
    /\ UNCHANGED <<email_generation_count, db>>

\* A caller of the function itself, with any arguments.
DirectCall ==
    /\ n_calls < MaxCalls
    /\ n_calls' = n_calls + 1
    /\ \E tone \in ToneArgs, recipient_name \in RecipientNames,
             use_gpt \in BOOLEAN :
          generate_email("direct", "client", ClientContext, tone,
                         recipient_name, use_gpt, 0)

\* A variant of gpt_except that tries the primary backend again.
gpt_except_retry == "gpt_request"

\* The except clause of generate_email_with_gpt: where control goes when
\* anything inside its try block raises (lines 88-90).
gpt_except == "hf_prompt"

\* Lines 51-73 of generate_email_with_gpt: the prompt. TONE_EXAMPLES[tone]
\* raises KeyError for a tone that is no key; the raise is inside the try.
GptPrompt ==
    /\ pc = "gpt_prompt"
    /\ IF call.tone \in DOMAIN TONE_EXAMPLES
          THEN /\ prompt' = gpt_prompt(call.tone, call.recipient_name)
               /\ pc' = "gpt_request"
               /\ UNCHANGED gpt_status
          ELSE /\ pc' = gpt_except
               /\ gpt_status' = "prompt_error"
               /\ UNCHANGED prompt
    /\ UNCHANGED <<call, gpt_calls, hf_calls, hf_status, content, result,
                   outcome, email_generation_count, n_calls, db>>

\* Lines 75-85: the call of the primary backend; the counter is incremented
\* once the call has returned.
GptRequest ==
    /\ pc = "gpt_request"
    /\ gpt_calls' = gpt_calls + 1
    /\ \E backend \in {"returns", "raises"} :
          IF backend = "returns"
             THEN /\ email_generation_count' = email_generation_count + 1
                  /\ pc' = "gpt_response"
                  /\ UNCHANGED gpt_status
             ELSE /\ pc' = gpt_except
                  /\ gpt_status' = "raised"
                  /\ UNCHANGED email_generation_count
    /\ UNCHANGED <<call, prompt, hf_calls, hf_status, content, result,
                   outcome, n_calls, db>>

\* Line 86: response.choices[0].message.content.strip() raises on a response
\* that has no choice or no content.
GptResponse ==
    /\ pc = "gpt_response"
    /\ \E response \in {"well_formed", "malformed"} :
          IF response = "well_formed"
             THEN /\ content' = "gpt_text"
                  /\ gpt_status' = "ok"
                  /\ pc' = "return"
             ELSE /\ gpt_status' = "malformed"
                  /\ pc' = gpt_except
                  /\ UNCHANGED content
    /\ UNCHANGED <<call, prompt, gpt_calls, hf_calls, hf_status, result,
                   outcome, email_generation_count, n_calls, db>>

\* Lines 96-100 of generate_email_with_huggingface: the prompt, outside the
\* try block. tone.lower() raises AttributeError for a tone that is no str,
\* and nothing up to the caller of generate_email catches it.
HfPrompt ==
    /\ pc = "hf_prompt"
    /\ IF IsStr(call.tone)
          THEN /\ pc' = "hf_request"
               /\ UNCHANGED <<hf_status, outcome>>
          ELSE /\ pc' = "raised"
               /\ hf_status' = "prompt_error"
               /\ outcome' = "raised"
    /\ UNCHANGED <<call, prompt, gpt_calls, hf_calls, gpt_status, content, result,
                   email_generation_count, n_calls, db>>

\* A variant of hf_except without the except clause: the exception leaves
\* generate_email.
hf_except_reraise == [pc |-> "raised", content |-> "none", outcome |-> "raised"]

\* The except clause of generate_email_with_huggingface (lines 113-114): the
\* error string is returned as the content.
hf_except == [pc |-> "return", content |-> "error_text", outcome |-> "none"]

\* Lines 103-111: the call of the local pipeline, then the counter.
HfRequest ==
    /\ pc = "hf_request"
    /\ hf_calls' = hf_calls + 1
    /\ \E backend \in {"returns", "raises"} :
          IF backend = "returns"
             THEN /\ email_generation_count' = email_generation_count + 1
                  /\ pc' = "hf_response"
                  /\ UNCHANGED <<hf_status, content, outcome>>
             ELSE /\ pc' = hf_except.pc
                  /\ content' = hf_except.content
                  /\ outcome' = hf_except.outcome
                  /\ hf_status' = "raised"
                  /\ UNCHANGED email_generation_count
    /\ UNCHANGED <<call, prompt, gpt_calls, gpt_status, result, n_calls, db>>

\* Line 112: result[0]['generated_text'].strip(), inside the try block.
HfResponse ==
    /\ pc = "hf_response"
    /\ \E response \in {"well_formed", "malformed"} :
          IF response = "well_formed"
             THEN /\ content' = "hf_text"
                  /\ hf_status' = "ok"
                  /\ pc' = "return"
                  /\ UNCHANGED outcome
             ELSE /\ hf_status' = "malformed"
                  /\ pc' = hf_except.pc
                  /\ content' = hf_except.content
                  /\ outcome' = hf_except.outcome
    /\ UNCHANGED <<call, prompt, gpt_calls, hf_calls, gpt_status, result,
                   email_generation_count, n_calls, db>>

\* Line 149: the model_used entry of the returned dictionary.
model_used(use_gpt) == IF use_gpt THEN "GPT-3.5" ELSE HF_MODEL

\* Lines 144-150 of generate_email: the returned dictionary.
Return ==
    /\ pc = "return"
    /\ result' = [content |-> content, tone |-> call.tone,
                  model_used |-> model_used(call.use_gpt)]
    /\ outcome' = "returned"
    /\ pc' = "done"
    /\ UNCHANGED <<call, prompt, gpt_calls, hf_calls, gpt_status, hf_status, content,
                   email_generation_count, n_calls, db>>

\* The caller of the function has its answer (a result or an exception).
DirectDone ==
    /\ pc \in {"done", "raised"}
    /\ call.caller = "direct"
    /\ pc' = "idle"
    /\ UNCHANGED <<call, prompt, gpt_calls, hf_calls, gpt_status, hf_status, content,
                   result, outcome, email_generation_count, n_calls, db>>

-----------------------------------------------------------------------------
(* routes/email.py                                                         *)

\* generate(), lines 15-24: the request body is read, a request without
\* subject or context is answered 400, otherwise generate_email is called
\* with the client's tone (default "Formal"), the default backend and no
\* recipient name.
RouteGenerate ==
    /\ n_calls < MaxCalls
    /\ n_calls' = n_calls + 1
    /\ \E tone \in ToneArgs, user_id \in Users :
          generate_email("route", "client", ClientContext, tone, None, TRUE,
                         user_id)

\* generate(), lines 26-42: the record is stored with the request's tone and
\* the response is sent.
RouteSave ==
    /\ pc = "done"
    /\ call.caller = "route"
    /\ db' = Append(db, [tone |-> call.tone, user_id |-> call.user_id])
    /\ pc' = "idle"
    /\ UNCHANGED <<call, prompt, gpt_calls, hf_calls, gpt_status, hf_status, content,
                   result, outcome, email_generation_count, n_calls>>

\* generate(): an exception of generate_email leaves the handler; nothing is
\* stored.
RouteError ==
    /\ pc = "raised"
    /\ call.caller = "route"
    /\ pc' = "idle"
    /\ UNCHANGED <<call, prompt, gpt_calls, hf_calls, gpt_status, hf_status, content,
                   result, outcome, email_generation_count, n_calls, db>>

-----------------------------------------------------------------------------
(* services/resume_matcher.py: the application pipeline                    *)

\* Lines 180-190: the values the f-string puts into the context.
prompt_context(skills_to_highlight, job_reqs, overall_score, tone) ==
    [kind |-> "application", resume_skills |-> skills_to_highlight,
     required |-> job_reqs.required_skills,
     preferred |-> job_reqs.preferred_skills,
     match_score |-> overall_score, tone |-> Lower(tone)]

\* Lines 194-199: the analysis dictionary.
analysis_data(match, missing_reqs, skills_to_highlight) ==
    [match_score |-> match.overall,
     detailed_scores |-> match.detailed_scores,
     missing_requirements |-> missing_reqs,
     skills_found |-> skills_to_highlight]

NoAnalysis ==
    analysis_data(NoScores("none"), [required |-> <<>>, preferred |-> <<>>], <<>>)

NoApp ==
    [status |-> "none", resume_text |-> <<>>,
     job_description |-> <<>>, tone |-> Formal, include_match_info |-> FALSE,
     generate_calls |-> 0, analysis |-> NoAnalysis, email |-> NoResult,
     other |-> [status |-> "none", context |-> ClientContext,
                analysis |-> NoAnalysis]]

\* "Experienced in Python and AWS"
ScenarioResume ==
    <<<<69,120,112,101,114,105,101,110,99,101,100>>, <<105,110>>, <<80,121,116,104,111,110>>, <<97,110,100>>, <<65,87,83>>>>

\* "Required: Python, SQL. Preferred: AWS."
ScenarioJob ==
    <<<<82,101,113,117,105,114,101,100>>, Colon, <<80,121,116,104,111,110>>, Comma, <<83,81,76>>, Period, <<80,114,101,102,101,114,114,101,100>>, Colon, <<65,87,83>>, Period>>

\* "Amazon Web Services and SQL"
CloudResume ==
    <<<<65,109,97,122,111,110>>, <<87,101,98>>, <<83,101,114,118,105,99,101,115>>, <<97,110,100>>, <<83,81,76>>>>

\* "Required: Amazon Web Services."
CloudJob ==
    <<<<82,101,113,117,105,114,101,100>>, Colon, <<65,109,97,122,111,110>>, <<87,101,98>>, <<83,101,114,118,105,99,101,115>>, Period>>

\* "We are."
EmptyJob ==
    <<<<87,101>>, <<97,114,101>>, Period>>

\* The (resume, job description) pairs given to the pipeline.
AppInputs ==
    { <<<<>>, EmptyJob>>, <<<<>>, ScenarioJob>>,
      <<ScenarioResume, ScenarioJob>>, <<CloudResume, CloudJob>> }

\* A variant of application_email that leaves the match score out of the
\* context unless include_match_info is set.
application_email_with_match_info(resume, job, tone, include_match_info) ==
    LET match               == compute_match_score(resume, job)
        missing_reqs        == get_missing_requirements(resume, job)
        skills_to_highlight == extract_skills(resume)
        job_reqs            == analyze_requirements(job)
    IN  IF match.status = "raised" \/ ~IsStr(tone)
           THEN [status |-> "raised", context |-> ClientContext,
                 analysis |-> NoAnalysis]
           ELSE [status |-> "running",
                 context |->
                     prompt_context(skills_to_highlight, job_reqs,
                         IF include_match_info THEN match.overall ELSE 0,
                         tone),
                 analysis |->
                     analysis_data(match, missing_reqs, skills_to_highlight)]

\* generate_application_email, lines 173-199, up to the call of
\* generate_email: the context given to generate_email and the analysis
\* dictionary. compute_match_score may raise (line 173) and tone.lower()
\* raises for a tone that is no str (line 186); either exception leaves the
\* function before generate_email is called. No line reads
\* include_match_info.
application_email(resume, job, tone, include_match_info) ==
    LET match               == compute_match_score(resume, job)
        missing_reqs        == get_missing_requirements(resume, job)
        skills_to_highlight == extract_skills(resume)
        job_reqs            == analyze_requirements(job)
    IN  IF match.status = "raised" \/ ~IsStr(tone)
           THEN [status |-> "raised", context |-> ClientContext,
                 analysis |-> NoAnalysis]
           ELSE [status |-> "running",
                 context |->
                     prompt_context(skills_to_highlight, job_reqs,
                                    match.overall, tone),
                 analysis |->
                     analysis_data(match, missing_reqs, skills_to_highlight)]

\* One call of generate_application_email, lines 160-192. other is what the
\* same call with the other value of include_match_info computes.
ApplicationCall ==
    /\ pc = "idle"
    /\ n_calls < MaxAppCalls
    /\ n_calls' = n_calls + 1
    /\ \E input \in AppInputs, tone \in ToneArgs,
          include_match_info \in BOOLEAN :
          \E this \in {application_email(input[1], input[2], tone,
                                         include_match_info)} :
          LET resume  == input[1]
              job     == input[2]
              started ==
                  [status |-> this.status,
                   resume_text |-> resume, job_description |-> job,
                   tone |-> tone, include_match_info |-> include_match_info,
                   generate_calls |-> 0, analysis |-> this.analysis,
                   email |-> NoResult,
                   other |-> application_email(resume, job, tone,
                                               ~include_match_info)]
          IN  IF this.status = "raised"
                 THEN /\ app' = started
                      /\ pc' = "app_done"
                      /\ UNCHANGED <<call, prompt, gpt_calls, hf_calls,
                                     gpt_status, hf_status, content, result,
                                     outcome, email_generation_count, db>>
                 ELSE /\ app' = [started EXCEPT !.generate_calls = 1]
                      /\ generate_email("pipeline", "Job Application",
                                        this.context, tone, None, TRUE, 0)

\* Lines 192-201: generate_email has returned; the pair of its result and the
\* analysis dictionary is returned.
ApplicationReturn ==
    /\ pc = "done"
    /\ call.caller = "pipeline"
    /\ app' = [app EXCEPT !.status = "returned", !.email = result]
    /\ pc' = "app_done"
    /\ UNCHANGED <<call, prompt, gpt_calls, hf_calls, gpt_status, hf_status, content,
                   result, outcome, email_generation_count, n_calls, db>>

\* The caller of generate_application_email has its answer (the pair or an
\* exception); the locals of the call are gone.
ApplicationDone ==
    /\ pc = "app_done"
    /\ app' = NoApp
    /\ pc' = "idle"
    /\ UNCHANGED <<call, prompt, gpt_calls, hf_calls, gpt_status, hf_status, content,
                   result, outcome, email_generation_count, n_calls, db>>

-----------------------------------------------------------------------------
(* utils/metrics.py                                                        *)

\* get_email_count, lines 28-37: the stored records are counted, those of
\* user_id when a user_id is given (0 stands for None), and the counter
\* email_generation_count is set to the count.
get_email_count(user_id) ==
    LET records == IF user_id # 0
                      THEN {i \in 1..Len(db) : db[i].user_id = user_id}
                      ELSE 1..Len(db)
        count   == Cardinality(records)
    IN  /\ pc = "idle"
        /\ email_generation_count' = count
        /\ UNCHANGED <<pc, call, prompt, gpt_calls, hf_calls, gpt_status, hf_status,
                       content, result, outcome, n_calls, db>>

\* get_user_metrics, lines 59-66.
GetUserMetrics == \E user_id \in Users : get_email_count(user_id)

\* get_global_metrics, lines 68-76.
GetGlobalMetrics == get_email_count(0)

-----------------------------------------------------------------------------
(* services/sender.py                                                      *)

\* Calls of send_email in a behaviour.
MaxSendCalls == 2

\* The argument tries of the decorator @retry (line 144).
tries == 3

\* A variant of retry_exceptions that retries after every EmailError.
retry_exceptions_every_email_error ==
    {"SMTPConnectionError", "InvalidRecipientError", "AttachmentError",
     "EmailError"}

\* The argument exceptions of the decorator @retry (line 144).
retry_exceptions == {"SMTPConnectionError"}

NoSend ==
    [status |-> "none", attachments |-> FALSE,
     tries |-> 0, endings |-> <<>>, error |-> "none",
     success0 |-> 0, failure0 |-> 0, calls |-> 0]

\* How one run of the body of send_email (lines 183-253) can end, given
\* whether attachments were passed: the exception class that leaves the
\* body, or "success".
\*   render (line 189) raises EmailError;
\*   a recipient without MX record gives InvalidRecipientError (line 198);
\*   an attachment that cannot be read gives AttachmentError (line 132);
\*   an smtplib.SMTPException in lines 220-240 gives SMTPConnectionError
\*   (line 246);
\*   any other exception, such as the OSError of a refused connection, is
\*   wrapped into EmailError (line 253).
body_endings(attachments) ==
    {"success", "InvalidRecipientError", "SMTPConnectionError", "EmailError"}
        \cup (IF attachments THEN {"AttachmentError"} ELSE {})

\* The counter EMAIL_SEND_ATTEMPTS after the body ended so and so: line 242
\* counts a success and line 245 an SMTPException.
count_attempt(attempts, ending) ==
    IF ending = "success"
       THEN [attempts EXCEPT !.success = @ + 1]
       ELSE IF ending = "SMTPConnectionError"
               THEN [attempts EXCEPT !.failure = @ + 1]
               ELSE attempts

\* A call of send_email: the decorator starts its loop with tries attempts
\* left.
SendEmail ==
    /\ send.status = "none"
    /\ send.calls < MaxSendCalls
    /\ \E attachments \in BOOLEAN :
          send' = [NoSend EXCEPT !.status = "running",
                                 !.attachments = attachments,
                                 !.tries = tries,
                                 !.success0 = EMAIL_SEND_ATTEMPTS.success,
                                 !.failure0 = EMAIL_SEND_ATTEMPTS.failure,
                                 !.calls = send.calls + 1]
    /\ UNCHANGED <<EMAIL_SEND_ATTEMPTS, reply>>

\* One attempt: the body of send_email runs, and the loop of the decorator
\* handles how it ended: the result is returned; an exception in
\* retry_exceptions uses up one try and is raised when none is left; any
\* other exception leaves the call.
SendAttempt ==
    /\ send.status = "running"
    /\ \E ending \in body_endings(send.attachments) :
          /\ EMAIL_SEND_ATTEMPTS' =
                count_attempt(EMAIL_SEND_ATTEMPTS, ending)
          /\ send' =
                LET ended == [send EXCEPT !.endings = Append(@, ending)]
                IN  IF ending = "success"
                       THEN [ended EXCEPT !.status = "returned"]
                    ELSE IF ending \in retry_exceptions /\ send.tries > 1
                       THEN [ended EXCEPT !.tries = @ - 1]
                    ELSE [ended EXCEPT !.status = "raised",
                                       !.error = ending,
                                       !.tries =
                                          IF ending \in retry_exceptions
                                             THEN @ - 1 ELSE @]
    /\ UNCHANGED reply

\* The caller of send_email has its answer.
SendDone ==
    /\ send.status \in {"returned", "raised"}
    /\ send' = [NoSend EXCEPT !.calls = send.calls]
    /\ UNCHANGED <<EMAIL_SEND_ATTEMPTS, reply>>

-----------------------------------------------------------------------------
(* routes/history.py                                                       *)

\* The id of a record of email_records is its place in db: the primary key
\* is assigned in the order of the inserts.

NoReply == [route |-> "none", user_id |-> 0, email_id |-> 0,
            status |-> 0, history |-> <<>>, error |-> "none", exported |-> 0]

\* A variant of owned_by that lets every record pass.
owned_by_anyone(record, user_id) == TRUE

\* The filter EmailRecord.user_id == user_id of lines 17 and 36.
owned_by(record, user_id) == record.user_id = user_id

\* Line 17: the ids of the records of user_id, the newest first.
RECURSIVE history_query(_, _, _)
history_query(records, user_id, i) ==
    IF i = 0 THEN <<>>
    ELSE (IF owned_by(records[i], user_id) THEN <<i>> ELSE <<>>)
             \o history_query(records, user_id, i - 1)

\* Line 36: the id of the first record with the id email_id that belongs to
\* user_id, 0 for None.
export_query(records, email_id, user_id) ==
    IF email_id \in 1..Len(records) /\ owned_by(records[email_id], user_id)
       THEN email_id
       ELSE 0

\* get_history, lines 14-28: the records of the logged-in user are listed.
GetHistory ==
    /\ pc = "idle"
    /\ \E user_id \in Users :
          reply' = [NoReply EXCEPT !.route = "get_history",
                                   !.user_id = user_id,
                                   !.status = 200,
                                   !.history = history_query(db, user_id, Len(db))]
    /\ pc' = "reply_done"
    /\ UNCHANGED <<call, prompt, gpt_calls, hf_calls, gpt_status, hf_status,
                   content, result, outcome, email_generation_count, n_calls,
                   db, send, EMAIL_SEND_ATTEMPTS>>

\* export_pdf, lines 33-45: 404 when the query finds no record, otherwise
\* the record is exported (line 43) and the file is sent.
ExportPdf ==
    /\ pc = "idle"
    /\ \E user_id \in Users, email_id \in 1..(Len(db) + 1) :
          LET email == export_query(db, email_id, user_id)
          IN  reply' =
                 IF email = 0
                    THEN [NoReply EXCEPT !.route = "export_pdf",
                                         !.user_id = user_id,
                                         !.email_id = email_id,
                                         !.status = 404,
                                         !.error = "Email not found"]
                    ELSE [NoReply EXCEPT !.route = "export_pdf",
                                         !.user_id = user_id,
                                         !.email_id = email_id,
                                         !.status = 200,
                                         !.exported = email]
    /\ pc' = "reply_done"
    /\ UNCHANGED <<call, prompt, gpt_calls, hf_calls, gpt_status, hf_status,
                   content, result, outcome, email_generation_count, n_calls,
                   db, send, EMAIL_SEND_ATTEMPTS>>

\* The answer has been sent.
ReplyDone ==
    /\ pc = "reply_done"
    /\ pc' = "idle"
    /\ reply' = NoReply
    /\ UNCHANGED <<call, prompt, gpt_calls, hf_calls, gpt_status, hf_status,
                   content, result, outcome, email_generation_count, n_calls,
                   db, send, EMAIL_SEND_ATTEMPTS>>

ServiceIdle ==
    /\ send = NoSend
    /\ EMAIL_SEND_ATTEMPTS = [success |-> 0, failure |-> 0]
    /\ reply = NoReply

-----------------------------------------------------------------------------

GenInit ==
    /\ pc = "idle"
    /\ call = NoCall
    /\ prompt = NoPrompt
    /\ gpt_calls = 0
    /\ hf_calls = 0
    /\ gpt_status = "none"
    /\ hf_status = "none"
    /\ content = "none"
    /\ result = NoResult
    /\ outcome = "none"
    /\ email_generation_count = 0
    /\ n_calls = 0
    /\ db = <<>>

Init == GenInit /\ ToneIdle /\ MatchIdle /\ app = NoApp /\ ServiceIdle

\* The variables no step of generate_email or of the route touches.
others == <<tone_vars, match_vars, app, service_vars>>

Next ==
    \/ DirectCall /\ UNCHANGED others
    \/ RouteGenerate /\ UNCHANGED others
    \/ GptPrompt /\ UNCHANGED others
    \/ GptRequest /\ UNCHANGED others
    \/ GptResponse /\ UNCHANGED others
    \/ HfPrompt /\ UNCHANGED others
    \/ HfRequest /\ UNCHANGED others
    \/ HfResponse /\ UNCHANGED others
    \/ Return /\ UNCHANGED others
    \/ DirectDone /\ UNCHANGED others
    \/ RouteSave /\ UNCHANGED others
    \/ RouteError /\ UNCHANGED others

Spec == Init /\ [][Next]_vars

\* generate_email and its callers together with the metrics queries
MetricsNext ==
    \/ Next
    \/ GetUserMetrics /\ UNCHANGED others
    \/ GetGlobalMetrics /\ UNCHANGED others

SpecMetrics == Init /\ [][MetricsNext]_vars

\* send_email called again and again
SendNext ==
    \/ SendEmail /\ UNCHANGED <<gen_vars, tone_vars, match_vars, app>>
    \/ SendAttempt /\ UNCHANGED <<gen_vars, tone_vars, match_vars, app>>
    \/ SendDone /\ UNCHANGED <<gen_vars, tone_vars, match_vars, app>>

SpecSend == Init /\ [][SendNext]_vars

\* The /generate route together with the history routes
HistoryNext ==
    \/ Next
    \/ GetHistory /\ UNCHANGED <<tone_vars, match_vars, app>>
    \/ ExportPdf /\ UNCHANGED <<tone_vars, match_vars, app>>
    \/ ReplyDone /\ UNCHANGED <<tone_vars, match_vars, app>>

SpecHistory == Init /\ [][HistoryNext]_vars

\* normalize_tone applied to every raw tone of the model
ToneInit ==
    /\ GenInit
    /\ MatchIdle
    /\ raw_tone \in ToneInputs
    /\ normalized = <<>>
    /\ tone_pc = "input"
    /\ AnalyzeIdle
    /\ app = NoApp
    /\ ServiceIdle

ToneNext == NormalizeTone /\ UNCHANGED <<gen_vars, match_vars, app, service_vars>>

SpecTone == ToneInit /\ [][ToneNext]_vars

\* analyze_tone applied to every text of the model
AnalyzeInit ==
    /\ GenInit
    /\ MatchIdle
    /\ raw_tone = <<>>
    /\ normalized = <<>>
    /\ tone_pc = "idle"
    /\ tone_text \in AnalyzeTexts
    /\ detected = NoDetected
    /\ analyze_pc = "input"
    /\ catalog = Catalogs
    /\ tone_call = NoToneCall
    /\ app = NoApp
    /\ ServiceIdle

AnalyzeNext == AnalyzeTone /\ UNCHANGED <<gen_vars, match_vars, app, service_vars>>

SpecAnalyze == AnalyzeInit /\ [][AnalyzeNext]_vars

\* compute_match_score applied to every resume and job description of the
\* model, for every behaviour of the entity recogniser and both set orders
MatchInit ==
    /\ GenInit
    /\ ToneIdle
    /\ ner \in SUBSET EntityPhrases
    /\ hash_seed \in {0, 1}
    /\ resume_text \in ResumeTexts
    /\ job_description \in JobDescriptions
    /\ match_pc = "input"
    /\ match_result = NoScores("none")
    /\ missing = NoMissing
    /\ match_again = NoScores("none")
    /\ job_requirements = NoRequirements
    /\ extracted = NoSkills
    /\ app = NoApp
    /\ ServiceIdle

MatchNext ==
    \/ ComputeMatchScore /\ UNCHANGED <<gen_vars, tone_vars, app, service_vars>>
    \/ GetMissingRequirements /\ UNCHANGED <<gen_vars, tone_vars, app, service_vars>>

SpecMatch == MatchInit /\ [][MatchNext]_vars

\* analyze_requirements applied to every job description of the model
RequirementsInit ==
    /\ GenInit
    /\ ToneIdle
    /\ ner \in SUBSET EntityPhrases
    /\ hash_seed \in {0, 1}
    /\ resume_text = <<>>
    /\ job_description \in JobDescriptions
    /\ match_pc = "input"
    /\ match_result = NoScores("none")
    /\ missing = NoMissing
    /\ match_again = NoScores("none")
    /\ job_requirements = NoRequirements
    /\ extracted = NoSkills
    /\ app = NoApp
    /\ ServiceIdle

RequirementsNext ==
    AnalyzeRequirements /\ UNCHANGED <<gen_vars, tone_vars, app, service_vars>>

SpecRequirements == RequirementsInit /\ [][RequirementsNext]_vars

\* extract_skills on its own
SkillsInit ==
    /\ GenInit
    /\ ToneIdle
    /\ ner \in SUBSET EntityPhrases
    /\ hash_seed \in {0, 1}
    /\ resume_text \in SkillTexts
    /\ job_description = <<>>
    /\ match_pc = "input"
    /\ match_result = NoScores("none")
    /\ missing = NoMissing
    /\ match_again = NoScores("none")
    /\ job_requirements = NoRequirements
    /\ extracted = NoSkills
    /\ app = NoApp
    /\ ServiceIdle

SkillsNext ==
    ExtractSkills /\ UNCHANGED <<gen_vars, tone_vars, app, service_vars>>

SpecSkills == SkillsInit /\ [][SkillsNext]_vars

\* The job descriptions of the repeated evaluation: "", every sentence of the
\* model and the scenario's two sentences.
RepeatJobs == {<<>>, ScenarioJob} \cup JobSentences

\* compute_match_score evaluated twice on the same arguments
RepeatInit ==
    /\ GenInit
    /\ ToneIdle
    /\ ner \in SUBSET EntityPhrases
    /\ hash_seed \in {0, 1}
    /\ resume_text \in ResumeTexts
    /\ job_description \in RepeatJobs
    /\ match_pc = "input"
    /\ match_result = NoScores("none")
    /\ missing = NoMissing
    /\ match_again = NoScores("none")
    /\ job_requirements = NoRequirements
    /\ extracted = NoSkills
    /\ app = NoApp
    /\ ServiceIdle

RepeatNext ==
    \/ ComputeMatchScore /\ UNCHANGED <<gen_vars, tone_vars, app, service_vars>>
    \/ NewProcess /\ UNCHANGED <<gen_vars, tone_vars, app, service_vars>>
    \/ ComputeMatchScoreAgain /\ UNCHANGED <<gen_vars, tone_vars, app, service_vars>>

SpecRepeat == RepeatInit /\ [][RepeatNext]_vars

\* The two callers of generate_email in the repository, the /generate route
\* and generate_application_email, with an entity recogniser that tags no
\* phrase or every phrase, and both set orders
AppInit ==
    /\ GenInit
    /\ ToneIdle
    /\ ner \in {{}, EntityPhrases}
    /\ hash_seed \in {0, 1}
    /\ resume_text = <<>>
    /\ job_description = <<>>
    /\ match_pc = "idle"
    /\ match_result = NoScores("none")
    /\ missing = NoMissing
    /\ match_again = NoScores("none")
    /\ job_requirements = NoRequirements
    /\ extracted = NoSkills
    /\ app = NoApp
    /\ ServiceIdle

\* The variables no step of the pipeline touches.
idle_vars == <<tone_vars, match_vars, service_vars>>

AppNext ==
    \/ ApplicationCall /\ UNCHANGED idle_vars
    \/ RouteGenerate /\ n_calls < MaxAppCalls /\ UNCHANGED others
    \/ GptPrompt /\ UNCHANGED others
    \/ GptRequest /\ UNCHANGED others
    \/ GptResponse /\ UNCHANGED others
    \/ HfPrompt /\ UNCHANGED others
    \/ HfRequest /\ UNCHANGED others
    \/ HfResponse /\ UNCHANGED others
    \/ Return /\ UNCHANGED others
    \/ RouteSave /\ UNCHANGED others
    \/ RouteError /\ UNCHANGED others
    \/ ApplicationReturn /\ UNCHANGED idle_vars
    \/ ApplicationDone /\ UNCHANGED idle_vars

SpecApp == AppInit /\ [][AppNext]_vars

\* The functions that read the tone catalogs, called one after the other in
\* any order: the tone_adapter functions, generate_email and
\* generate_application_email
CatalogInit ==
    /\ GenInit
    /\ raw_tone \in {LowerFriendly, Casual}
    /\ normalized = <<>>
    /\ tone_pc = "input"
    /\ tone_text \in AdjustTexts
    /\ detected = NoDetected
    /\ analyze_pc = "input"
    /\ catalog = Catalogs
    /\ tone_call = NoToneCall
    /\ ner = {}
    /\ hash_seed = 0
    /\ resume_text = <<>>
    /\ job_description = <<>>
    /\ match_pc = "idle"
    /\ match_result = NoScores("none")
    /\ missing = NoMissing
    /\ match_again = NoScores("none")
    /\ job_requirements = NoRequirements
    /\ extracted = NoSkills
    /\ app = NoApp
    /\ ServiceIdle

\* A call of a tone_adapter function is made between two other calls and
\* counts as a call.
ToneCall ==
    /\ pc = "idle"
    /\ n_calls < MaxCalls
    /\ n_calls' = n_calls + 1
    /\ UNCHANGED <<pc, call, prompt, gpt_calls, hf_calls, gpt_status,
                   hf_status, content, result, outcome,
                   email_generation_count, db, match_vars, app,
                   service_vars>>

\* A call of a tone_adapter helper, likewise; its caller then has the answer.
HelperCall ==
    /\ pc = "idle"
    /\ n_calls < MaxCalls
    /\ n_calls' = n_calls + 1
    /\ pc' = "helper_done"
    /\ UNCHANGED <<call, prompt, gpt_calls, hf_calls, gpt_status, hf_status,
                   content, result, outcome, email_generation_count, db,
                   match_vars, app, service_vars>>

\* The caller of the helper has used the answer; the answer is gone.
HelperDone ==
    /\ pc = "helper_done"
    /\ pc' = "idle"
    /\ tone_call' = NoToneCall
    /\ UNCHANGED <<call, prompt, gpt_calls, hf_calls, gpt_status, hf_status,
                   content, result, outcome, email_generation_count, n_calls,
                   db, raw_tone, normalized, tone_pc, tone_text, detected,
                   analyze_pc, catalog, match_vars, app, service_vars>>

CatalogNext ==
    \/ ToneCall /\ NormalizeTone
    \/ ToneCall /\ AnalyzeTone
    \/ HelperCall /\ GetToneCharacteristics
    \/ HelperCall /\ GetTonePromptPrefix
    \/ HelperCall /\ AdjustTone
    \/ HelperDone
    \/ DirectCall /\ UNCHANGED others
    \/ ApplicationCall /\ UNCHANGED idle_vars
    \/ GptPrompt /\ UNCHANGED others
    \/ GptRequest /\ UNCHANGED others
    \/ GptResponse /\ UNCHANGED others
    \/ HfPrompt /\ UNCHANGED others
    \/ HfRequest /\ UNCHANGED others
    \/ HfResponse /\ UNCHANGED others
    \/ Return /\ UNCHANGED others
    \/ DirectDone /\ UNCHANGED others
    \/ ApplicationReturn /\ UNCHANGED idle_vars
    \/ ApplicationDone /\ UNCHANGED idle_vars

SpecCatalog == CatalogInit /\ [][CatalogNext]_vars

-----------------------------------------------------------------------------
(* Properties of generate_email.                                           *)

Catalog == {TONE_OPTIONS[i] : i \in 1..Len(TONE_OPTIONS)}

PrimaryFailed == gpt_status \in {"raised", "malformed"}

SecondaryFailed == hf_status \in {"raised", "malformed"}

\* C1: generate_email called with a str tone never raises because of a
\* backend failure. Whatever the two backends do, the call returns; when the
\* primary backend raised, the secondary was invoked and, if it succeeded, its
\* text is the content; when the secondary failed too, the content is the
\* error string.
C1_NeverRaisesOnBackendFailure ==
    IsStr(call.tone) =>
        /\ pc # "raised"
        /\ outcome # "raised"
        /\ pc = "done" =>
              /\ outcome = "returned"
              /\ result.content \in {"gpt_text", "hf_text", "error_text"}
              /\ PrimaryFailed => hf_calls = 1
              /\ PrimaryFailed /\ hf_status = "ok" => result.content = "hf_text"
              /\ SecondaryFailed => result.content = "error_text"

\* C1 witness: a call with a str tone in which both backends raised has
\* returned the error string.
C1_Witness ==
    /\ pc = "done"
    /\ IsStr(call.tone)
    /\ gpt_status = "raised"
    /\ hf_status = "raised"
    /\ outcome = "returned"
    /\ result.content = "error_text"

\* C2: model_used names the backend that produced the content: "GPT-3.5"
\* when the primary path succeeded, config.HF_MODEL in every other case
\* (stated for the calls whose tone is a catalog tone, where the prompt
\* construction cannot fail).
C2_ModelUsedNamesTheBackend ==
    pc = "done" /\ call.tone \in Catalog =>
        result.model_used = IF gpt_status = "ok" THEN "GPT-3.5" ELSE HF_MODEL

\* C3: every generate_email call that returns has increased the generation
\* counter by exactly 1.
C3_CounterPlusOnePerCall ==
    pc = "done" => email_generation_count = call.count0 + 1

\* C4 (as stated): the secondary backend is invoked only after the primary
\* backend was invoked in the same call and failed, and each backend is
\* invoked at most once per call.
C4_SecondaryOnlyAfterPrimaryFailed ==
    /\ gpt_calls <= 1
    /\ hf_calls <= 1
    /\ hf_calls > 0 => gpt_calls = 1 /\ PrimaryFailed

\* C4 (amended): each backend is invoked at most once per call and the
\* primary backend is never invoked after the secondary one. With use_gpt the
\* secondary is invoked only after the primary path of the same call failed,
\* which is the primary backend raising, its response being malformed, or the
\* prompt construction raising before the backend was reached; without
\* use_gpt the secondary is invoked directly and the primary not at all.
C4_SingleHop ==
    /\ gpt_calls <= 1
    /\ hf_calls <= 1
    /\ pc \in {"gpt_prompt", "gpt_request", "gpt_response"} => hf_calls = 0
    /\ hf_calls > 0 /\ call.use_gpt =>
          \/ gpt_calls = 1 /\ PrimaryFailed
          \/ gpt_calls = 0 /\ gpt_status = "prompt_error"
    /\ ~call.use_gpt => gpt_calls = 0

\* C4 witness: the secondary backend has been invoked after the primary
\* backend raised in the same call.
C4_Witness ==
    /\ pc = "done"
    /\ call.use_gpt
    /\ gpt_calls = 1
    /\ gpt_status = "raised"
    /\ hf_calls = 1

\* C5: on the primary path a tone that is not a catalog tone makes the call
\* raise, and the secondary backend is not invoked.
C5_PromptFailurePropagates ==
    call.caller # "none" /\ call.use_gpt /\ call.tone \notin Catalog =>
        /\ hf_calls = 0
        /\ pc # "done"

\* C6: every tone that reaches generate_email from the /generate route or
\* from generate_application_email is a catalog tone, and so is the tone
\* stored with the generated e-mail.
C6_CallersPassCatalogTones ==
    /\ call.caller \in {"route", "pipeline"} => call.tone \in Catalog
    /\ \A i \in 1..Len(db) : db[i].tone \in Catalog

-----------------------------------------------------------------------------
(* Properties of normalize_tone.                                           *)

\* The catalog entries whose lower-cased name occurs in the lower-cased raw
\* input.
Named(raw) ==
    {i \in 1..Len(TONE_OPTIONS) : Contains(Lower(TONE_OPTIONS[i]), Lower(raw))}

\* C7: normalize_tone returns a catalog tone for every input string, the
\* empty and the whitespace-only ones included, and it returns Formal when no
\* tone name occurs in the input.
C7_NormalizeTotal ==
    tone_pc = "done" =>
        /\ normalized \in Catalog
        /\ Named(raw_tone) = {} => normalized = Formal

\* C7 witness: a whitespace-only input has been normalized to Formal.
C7_Witness ==
    /\ tone_pc = "done"
    /\ raw_tone # <<>>
    /\ \A i \in 1..Len(raw_tone) : IsSpace(raw_tone[i])
    /\ normalized = Formal

\* C8: when the trimmed, capitalized input is a catalog tone, that tone is
\* returned; when a tone name occurs in the input, whatever the case of its
\* letters, the result is the first catalog tone in enumeration order whose
\* name occurs, not the one that occurs first in the input.
C8_FirstNamedToneInCatalogOrder ==
    tone_pc = "done" =>
        /\ Capitalize(Strip(raw_tone)) \in Catalog =>
              normalized = Capitalize(Strip(raw_tone))
        /\ Named(raw_tone) # {} =>
              /\ normalized \in {TONE_OPTIONS[i] : i \in Named(raw_tone)}
              /\ \A i \in Named(raw_tone), j \in 1..Len(TONE_OPTIONS) :
                    TONE_OPTIONS[j] = normalized => j <= i

\* C8 witness: "Assertive fRiEnDlY" names two tones and has been normalized
\* to Friendly, the earlier one in enumeration order.
C8_Witness ==
    /\ tone_pc = "done"
    /\ raw_tone = Assertive \o <<32>> \o <<102,82,105,69,110,68,108,89>>
    /\ normalized = Friendly

-----------------------------------------------------------------------------
(* Properties of compute_match_score.                                      *)

Returned == match_pc = "done" /\ match_result.status = "returned"

\* The sum of the category scores, each times its weight in tenths, over the
\* common denominator CommonDen.
WeightedSum ==
    LET s == match_result.detailed_scores
    IN  4 * s.required_skills.num * s.preferred_skills.den * s.content_similarity.den
          + 2 * s.preferred_skills.num * s.required_skills.den * s.content_similarity.den
          + 4 * s.content_similarity.num * s.required_skills.den * s.preferred_skills.den

CommonDen ==
    LET s == match_result.detailed_scores
    IN  10 * s.required_skills.den * s.preferred_skills.den * s.content_similarity.den

\* C9: in every result of compute_match_score the overall score is the sum
\* 0.4 * required_skills + 0.2 * preferred_skills + 0.4 * content_similarity
\* of the returned category scores rounded down to an integer, every
\* category score lies in 0..100 and the overall score is an integer in
\* 0..100.
C9_OverallIsWeightedSumRoundedDown ==
    Returned =>
        /\ \A category \in DOMAIN match_result.detailed_scores :
              LET score == match_result.detailed_scores[category]
              IN  score.den > 0 /\ 0 <= score.num /\ score.num <= 100 * score.den
        /\ match_result.overall \in 0..100
        /\ CommonDen * match_result.overall <= WeightedSum
        /\ WeightedSum < CommonDen * (match_result.overall + 1)

\* C9 witness: a result with a partial required-skill match whose weighted
\* sum is not an integer, so that rounding down shows.
C9_Witness ==
    /\ Returned
    /\ 0 < match_result.detailed_scores.required_skills.num
    /\ match_result.detailed_scores.required_skills.num
           < 100 * match_result.detailed_scores.required_skills.den
    /\ match_result.detailed_scores.content_similarity.num > 0
    /\ CommonDen * match_result.overall < WeightedSum

\* C10: whenever analyze_requirements yields an empty required_skills
\* (preferred_skills) list for the job description, compute_match_score
\* returns a required_skills (preferred_skills) category score of exactly
\* 100.0, for every resume text.
C10_EmptySkillSetScores100 ==
    match_pc = "done" =>
        LET job_reqs == analyze_requirements(job_description)
            s        == match_result.detailed_scores
        IN  /\ job_reqs.required_skills = <<>> =>
                  /\ match_result.status = "returned"
                  /\ s.required_skills.num = 100 * s.required_skills.den
            /\ job_reqs.preferred_skills = <<>> =>
                  /\ match_result.status = "returned"
                  /\ s.preferred_skills.num = 100 * s.preferred_skills.den

-----------------------------------------------------------------------------
(* Properties of the prompt of generate_email_with_gpt.                    *)

\* The name a greeting template is filled with: the recipient name when one
\* is given, "Sir/Madam" otherwise.
GreetingName ==
    IF truthy(call.recipient_name) THEN call.recipient_name
                                   ELSE <<83,105,114,47,77,97,100,97,109>>

\* C20: once the prompt for the primary backend is built for a catalog tone,
\* its greeting line is the greeting template of the tone with the recipient
\* name, or "Sir/Madam" when no name is given, in the place of "[Name]", and
\* its closing line is the closing template of the tone.
C20_PromptEmbedsToneGreetingAndClosing ==
    pc = "gpt_request" =>
        /\ prompt.start_with =
              replace(TONE_EXAMPLES[call.tone].greeting,
                      <<91,78,97,109,101,93>>, GreetingName)
        /\ prompt.end_with = TONE_EXAMPLES[call.tone].closing


-----------------------------------------------------------------------------
(* The argument include_match_info of generate_application_email.          *)

-----------------------------------------------------------------------------
(* Agreement of get_missing_requirements and compute_match_score.          *)

\* The category score (a fraction) is 100 exactly when the list of missing
\* skills is empty, and it is 100 * (1 - d/n) for d distinct missing skills
\* out of n > 0 distinct skills of the job.
ScoreAgrees(score, missing_skills, job_skills) ==
    LET n == Cardinality(Terms(job_skills))
        d == Cardinality(Terms(missing_skills))
    IN  /\ missing_skills = <<>> <=> score.num = 100 * score.den
        /\ n > 0 => score.num * n = 100 * (n - d) * score.den

\* C25: for every resume and job description, compute_match_score gives
\* scores, and its required_skills and preferred_skills scores agree with
\* the 'required' and 'preferred' lists of get_missing_requirements.
C25_MissingAgreesWithScores ==
    missing.status = "returned" =>
        /\ match_result.status = "returned"
        /\ ScoreAgrees(match_result.detailed_scores.required_skills,
                       missing.required,
                       analyze_requirements(job_description).required_skills)
        /\ ScoreAgrees(match_result.detailed_scores.preferred_skills,
                       missing.preferred,
                       analyze_requirements(job_description).preferred_skills)


-----------------------------------------------------------------------------
(* Properties of the history routes.                                       *)

\* C24: the answer of get_history to user u lists exactly the records whose
\* user_id is u, each once; the answer of export_pdf to user u for an
\* email_id that no record has, or that a record of another user has, is
\* 404 "Email not found", and nothing is exported.
C24_HistoryIsolatedPerUser ==
    /\ reply.route = "get_history" =>
          /\ {reply.history[k] : k \in 1..Len(reply.history)}
                = {i \in 1..Len(db) : db[i].user_id = reply.user_id}
          /\ \A k, l \in 1..Len(reply.history) :
                k # l => reply.history[k] # reply.history[l]
    /\ reply.route = "export_pdf"
          /\ (\/ reply.email_id \notin 1..Len(db)
              \/ db[reply.email_id].user_id # reply.user_id)
          => /\ reply.status = 404
             /\ reply.error = "Email not found"
             /\ reply.exported = 0

\* C24 witness: both users have a record, and a user has asked for the
\* export of the other user's record.
C24_Witness ==
    /\ reply.route = "export_pdf"
    /\ reply.email_id \in 1..Len(db)
    /\ db[reply.email_id].user_id # reply.user_id
    /\ \E i \in 1..Len(db) : db[i].user_id = reply.user_id
    /\ reply.status = 404

\* C24 witness for get_history: a user with one of the two records has got
\* the list.
C24_WitnessHistory ==
    /\ reply.route = "get_history"
    /\ Len(db) = 2
    /\ Len(reply.history) = 1


-----------------------------------------------------------------------------
(* Properties of send_email.                                               *)

\* The attempts of the current call that ended with ending.
EndedWith(ending) ==
    {i \in 1..Len(send.endings) : send.endings[i] = ending}

-----------------------------------------------------------------------------
(* Properties of the tone catalogs.                                        *)

\* C22: whatever calls of normalize_tone, get_tone_characteristics,
\* get_tone_prompt_prefix, analyze_tone, adjust_tone, generate_email and
\* generate_application_email have been made, TONE_CHARACTERISTICS,
\* TONE_DESCRIPTIONS, TONE_EXAMPLES and config.TONE_OPTIONS hold the values
\* they had at process start.
C22_CatalogReadOnly ==
    /\ catalog.TONE_CHARACTERISTICS = TONE_CHARACTERISTICS
    /\ catalog.TONE_DESCRIPTIONS = TONE_DESCRIPTIONS
    /\ catalog.TONE_EXAMPLES = TONE_EXAMPLES
    /\ catalog.TONE_OPTIONS = TONE_OPTIONS

\* C22 witness: get_tone_prompt_prefix has returned the prefix built from
\* the Friendly lists, after another call.
C22_Witness ==
    /\ tone_call.fn = "get_tone_prompt_prefix"
    /\ tone_call.status = "returned"
    /\ tone_call.tone = Friendly
    /\ Len(tone_call.value) > 0
    /\ n_calls >= 2


-----------------------------------------------------------------------------
(* Properties of extract_skills.                                           *)

\* C21: every element of the list extract_skills returns is a lower-case
\* string of more than 2 characters that is no stop-word, and no element
\* occurs twice in the list.
C21_SkillsLowerLongNoStopWordDistinct ==
    extracted.status = "returned" =>
        /\ \A i \in 1..Len(extracted.list) :
              /\ \A k \in 1..Len(extracted.list[i]) :
                    extracted.list[i][k] \notin 65..90
              /\ Len(extracted.list[i]) > 2
              /\ extracted.list[i] \notin stop_words
        /\ \A i, j \in 1..Len(extracted.list) :
              i # j => extracted.list[i] # extracted.list[j]

\* C21 witness: skills were extracted from a text with an upper-case word,
\* a stop-word, a word of two characters and a word that occurs twice.
C21_Witness ==
    /\ extracted.status = "returned"
    /\ Len(extracted.list) >= 2
    /\ \E i \in 1..Len(resume_text) : resume_text[i] \in stop_words
    /\ \E i \in 1..Len(resume_text) :
          /\ IsWordTok(resume_text[i])
          /\ Len(resume_text[i]) = 2
          /\ resume_text[i] # Lower(resume_text[i])

\* C21 witness for the duplicates: the text has the same word in three
\* spellings and the list has it once.
C21_WitnessCollapsed ==
    /\ extracted.status = "returned"
    /\ \E i, j \in 1..Len(resume_text) :
          /\ resume_text[i] # resume_text[j]
          /\ Lower(resume_text[i]) = Lower(resume_text[j])
          /\ Lower(resume_text[i]) \in {extracted.list[k] : k \in 1..Len(extracted.list)}


-----------------------------------------------------------------------------
(* Properties of analyze_requirements.                                     *)

\* The keywords of the four buckets in the order of the claim: required,
\* must have, essential; preferred, desired, plus; experience, year; degree,
\* education, certification.
BucketKeywords ==
    << {<<114,101,113,117,105,114,101,100>>, <<109,117,115,116,32,104,97,118,101>>, <<101,115,115,101,110,116,105,97,108>>},
       {<<112,114,101,102,101,114,114,101,100>>, <<100,101,115,105,114,101,100>>, <<112,108,117,115>>},
       {<<101,120,112,101,114,105,101,110,99,101>>, <<121,101,97,114>>},
       {<<100,101,103,114,101,101>>, <<101,100,117,99,97,116,105,111,110>>, <<99,101,114,116,105,102,105,99,97,116,105,111,110>>} >>

\* The buckets whose keywords occur in the lower-cased sentence.
Hits(sent) ==
    {k \in 1..4 : \E word \in BucketKeywords[k] :
                     Contains(word, Lower(Render(sent)))}

\* The sentences of the job description that belong to bucket k: the first
\* bucket with a keyword in the sentence is k.
SentencesOf(k) ==
    LET sents == doc_sents(job_description)
    IN  {i \in 1..Len(sents) : k \in Hits(sents[i])
                                /\ \A l \in Hits(sents[i]) : k <= l}

\* The skills of the sentences i, i + 1, ... that belong to bucket k.
RECURSIVE SkillsOf(_, _)
SkillsOf(k, i) ==
    LET sents == doc_sents(job_description)
    IN  IF i > Len(sents) THEN <<>>
        ELSE (IF i \in SentencesOf(k) THEN extract_skills(sents[i]) ELSE <<>>)
                 \o SkillsOf(k, i + 1)

\* list holds the texts of the sentences that belong to bucket k, in order.
IsTextsOf(list, k) ==
    LET sents == doc_sents(job_description)
    IN  /\ Len(list) = Cardinality(SentencesOf(k))
        /\ \A n \in 1..Len(list) :
              \E i \in SentencesOf(k) :
                  /\ Cardinality({j \in SentencesOf(k) : j <= i}) = n
                  /\ list[n] = Render(sents[i])

\* C19: analyze_requirements puts each sentence into the first bucket, in
\* the order required_skills, preferred_skills, experience, education, one
\* of whose keywords occurs in it: the skill buckets hold the skills of
\* their sentences and the text buckets the texts of theirs, a sentence
\* with keywords of several buckets is in the earliest only, and a sentence
\* without keyword is in none.
C19_FirstMatchingBucketOnly ==
    job_requirements.status = "returned" =>
        /\ job_requirements.required_skills = SkillsOf(1, 1)
        /\ job_requirements.preferred_skills = SkillsOf(2, 1)
        /\ IsTextsOf(job_requirements.experience, 3)
        /\ IsTextsOf(job_requirements.education, 4)

\* C19 witness: a job description with a sentence that has keywords of two
\* buckets and a sentence without keyword has been analyzed.
C19_Witness ==
    /\ job_requirements.status = "returned"
    /\ LET sents == doc_sents(job_description)
       IN  /\ \E i \in 1..Len(sents) : Cardinality(Hits(sents[i])) > 1
           /\ \E i \in 1..Len(sents) : Hits(sents[i]) = {}
    /\ job_requirements.preferred_skills # <<>>
    /\ job_requirements.experience = <<>>


-----------------------------------------------------------------------------
(* Properties of get_missing_requirements.                                 *)

\* list is the sequence of the elements of source that are not in skills, in
\* the order of source, an element as often as it occurs there.
IsRemainder(list, source, skills) ==
    LET kept == {i \in 1..Len(source) : source[i] \notin skills}
    IN  /\ Len(list) = Cardinality(kept)
        /\ \A k \in 1..Len(list) :
              \E i \in kept : /\ Cardinality({j \in kept : j <= i}) = k
                              /\ list[k] = source[i]

\* C11: get_missing_requirements returns, for 'required' and for
\* 'preferred', exactly the elements of the corresponding list of
\* analyze_requirements that are not resume skills: none of the resume's
\* skills, every other one, in the original order, duplicates kept.
C11_MissingIsOrderedRemainder ==
    missing.status = "returned" =>
        LET resume_skills == Terms(extract_skills(resume_text))
            job_reqs      == analyze_requirements(job_description)
        IN  /\ IsRemainder(missing.required, job_reqs.required_skills,
                           resume_skills)
            /\ IsRemainder(missing.preferred, job_reqs.preferred_skills,
                           resume_skills)
            /\ \A k \in 1..Len(missing.required) :
                  missing.required[k] \notin resume_skills

\* C11 witness: a result that left out a required skill of the resume and
\* kept a missing required skill twice.
C11_Witness ==
    /\ missing.status = "returned"
    /\ Len(missing.required) <
           Len(analyze_requirements(job_description).required_skills)
    /\ \E k, l \in 1..Len(missing.required) :
          k < l /\ missing.required[k] = missing.required[l]
    /\ Cardinality(Terms(missing.required)) > 1

-----------------------------------------------------------------------------
(* Properties of generate_application_email.                               *)

\* The call of generate_application_email has ended, by a return or by an
\* exception.
AppEnded == app.status \in {"returned", "raised"}

\* C12: generate_application_email calls generate_email exactly once, with
\* the subject "Job Application", the assembled context and the caller's
\* tone, and returns the generated e-mail with an analysis whose match_score
\* and detailed_scores are those of compute_match_score, whose
\* missing_requirements is the result of get_missing_requirements and whose
\* skills_found is the result of extract_skills; the match score in the
\* context is the same match_score.
C12_PipelineCallsGenerateOnceAndReturns ==
    AppEnded /\ IsStr(app.tone) =>
        LET match == compute_match_score(app.resume_text, app.job_description)
        IN  /\ app.status = "returned"
            /\ app.generate_calls = 1
            /\ call.caller = "pipeline"
            /\ call.subject = "Job Application"
            /\ call.tone = app.tone
            /\ call.context =
                   prompt_context(extract_skills(app.resume_text),
                                  analyze_requirements(app.job_description),
                                  match.overall, app.tone)
            /\ call.context.match_score = app.analysis.match_score
            /\ app.email = result
            /\ app.analysis.match_score = match.overall
            /\ app.analysis.detailed_scores = match.detailed_scores
            /\ app.analysis.missing_requirements =
                   get_missing_requirements(app.resume_text,
                                            app.job_description)
            /\ app.analysis.skills_found = extract_skills(app.resume_text)

\* C13: generate_application_email always returns and never raises, whatever
\* the two backends do: once the call has ended it has returned the pair of
\* a generated e-mail (the text of a backend, or the error string when both
\* failed) and the analysis, and the analysis holds the scores, the missing
\* requirements and the skills of its arguments also when both backends
\* failed.
C13_PipelineAlwaysReturns ==
    /\ call.caller = "pipeline" => pc # "raised"
    /\ AppEnded /\ IsStr(app.tone) =>
          /\ app.status = "returned"
          /\ app.email.content \in {"gpt_text", "hf_text", "error_text"}
          /\ PrimaryFailed /\ SecondaryFailed =>
                app.email.content = "error_text"
          /\ app.analysis =
                 analysis_data(
                     compute_match_score(app.resume_text, app.job_description),
                     get_missing_requirements(app.resume_text,
                                              app.job_description),
                     extract_skills(app.resume_text))

-----------------------------------------------------------------------------
(* Properties of the metrics.                                              *)

\* C14: email_generation_count is increment-only: no step of the program
\* decreases it, and a step that changes it is a step of generate_email that
\* adds exactly 1.
C14_CounterIncrementOnly ==
    [][\/ email_generation_count' = email_generation_count
       \/ /\ email_generation_count' = email_generation_count + 1
          /\ pc \in {"gpt_request", "hf_request"}]_vars

-----------------------------------------------------------------------------
(* Properties of analyze_tone.                                             *)

\* The text given to analyze_tone is made only of phrases of the i-th tone
\* and holds none of its avoid-words.
OnlyPhrasesOf(i) ==
    LET chars == TONE_CHARACTERISTICS[i]
    IN  /\ tone_text \in
               Joined({chars.phrases[k] : k \in 1..Len(chars.phrases)},
                      MaxFragments)
        /\ \A k \in 1..Len(chars.avoid) :
               ~Contains(Lower(chars.avoid[k]), Lower(tone_text))

\* C15: for a text made only of one or more preferred phrases of a catalog
\* tone A, with none of A's avoid-words, analyze_tone returns A with a
\* confidence greater than 0, also when the phrases hold preferred words of
\* other tones.
C15_OwnPhrasesDetectTheTone ==
    analyze_pc = "done" =>
        \A i \in 1..Len(TONE_CHARACTERISTICS) :
            OnlyPhrasesOf(i) =>
                /\ detected.tone = TONE_CHARACTERISTICS[i].tone
                /\ detected.confidence.num > 0

\* C15 witness: a text of phrases of one tone in which a preferred word of
\* another tone occurs has been analyzed.
C15_Witness ==
    /\ analyze_pc = "done"
    /\ \E i, j \in 1..Len(TONE_CHARACTERISTICS) :
          /\ i # j
          /\ OnlyPhrasesOf(i)
          /\ markers_found(TONE_CHARACTERISTICS[j].words, Lower(tone_text)) > 0
          /\ detected.tone = TONE_CHARACTERISTICS[i].tone

\* The markers of the list that occur as substrings of the lower-cased text
\* given to analyze_tone.
Found(markers) ==
    {k \in 1..Len(markers) : Contains(Lower(markers[k]), Lower(tone_text))}

\* The normalized score of the i-th catalog tone as the claim states it.
StatedScore(i) ==
    LET chars == TONE_CHARACTERISTICS[i]
    IN  [num |-> Cardinality(Found(chars.words))
                   + 2 * Cardinality(Found(chars.phrases))
                   - Cardinality(Found(chars.avoid)),
         den |-> Len(chars.words) + Len(chars.phrases)]

\* C18: analyze_tone returns the tone whose normalized score (words found
\* + 2 * phrases found - avoid-words found, over word count + phrase count)
\* is the maximum, the earliest such tone in catalog order, with the
\* confidence min(1.0, that score): the confidence is at most 1.0, and it
\* is negative exactly when the score of every tone is negative.
C18_MaxScoreFirstWinsConfidenceCapped ==
    analyze_pc = "done" =>
        \E i \in 1..Len(TONE_CHARACTERISTICS) :
            LET best == StatedScore(i)
                conf == detected.confidence
            IN  /\ detected.tone = TONE_CHARACTERISTICS[i].tone
                /\ \A j \in 1..Len(TONE_CHARACTERISTICS) :
                      /\ StatedScore(j).num * best.den <= best.num * StatedScore(j).den
                      /\ j < i =>
                            StatedScore(j).num * best.den < best.num * StatedScore(j).den
                /\ conf.den > 0
                /\ conf.num <= conf.den
                /\ IF best.num > best.den
                      THEN conf.num = conf.den
                      ELSE conf.num * best.den = best.num * conf.den
                /\ conf.num < 0 <=>
                      \A j \in 1..Len(TONE_CHARACTERISTICS) : StatedScore(j).num < 0

\* C18 witness: two tones share the maximum score, which is positive, and
\* the earlier one has been returned.
C18_Witness ==
    /\ analyze_pc = "done"
    /\ \E i, j \in 1..Len(TONE_CHARACTERISTICS) :
          /\ i < j
          /\ detected.tone = TONE_CHARACTERISTICS[i].tone
          /\ StatedScore(i).num > 0
          /\ StatedScore(i).num * StatedScore(j).den
                 = StatedScore(j).num * StatedScore(i).den


-----------------------------------------------------------------------------
(* The end-to-end scenario of the matcher.                                 *)

\* C16: for the resume "Experienced in Python and AWS" and the job
\* description "Required: Python, SQL. Preferred: AWS." the required skills
\* are python and sql, python alone is a resume skill, so the required_skills
\* score is 50.0, and the overall score is the weighted sum of the three
\* category scores rounded down.
C16_ScenarioRequiredScoreIs50 ==
    match_pc = "done" /\ resume_text = ScenarioResume
                      /\ job_description = ScenarioJob =>
        LET required == Terms(analyze_requirements(job_description).required_skills)
            python   == <<112,121,116,104,111,110>>
            sql      == <<115,113,108>>
            s        == match_result.detailed_scores
        IN  /\ match_result.status = "returned"
            /\ required = {python, sql}
            /\ required \cap skill_set(resume_text) = {python}
            /\ s.required_skills.num * 2 = 100 * s.required_skills.den
            /\ CommonDen * match_result.overall <= WeightedSum
            /\ WeightedSum < CommonDen * (match_result.overall + 1)

-----------------------------------------------------------------------------
(* Determinism of compute_match_score.                                     *)

=============================================================================
